---------------------------- MODULE Spec2Model ----------------------------
(***************************************************************************)
(* A model of the JSON Schema validator of itayankri/go-json-schema:       *)
(* schema compilation (JsonSchema.UnmarshalJSON, scanSchema), the root     *)
(* schema pool (rootSchemaPool, NewRootJsonSchema) and validation          *)
(* (validateJsonData and the keyword validators).                          *)
(*                                                                         *)
(* Strings are sequences of symbols.  A symbol is one character, or a run  *)
(* of characters that holds none of the delimiters the code looks for      *)
(* ("/", "#", digits, signs), such as a keyword name.  The same text is     *)
(* always cut into the same symbols, so string equality is sequence        *)
(* equality.  Numbers are held in halves (h = 2 * value), so that 1.5 is   *)
(* h = 3 and a number is integral iff h is even.                           *)
(***************************************************************************)
EXTENDS Integers, Sequences, FiniteSets, TLC

VARIABLES heap, rootSchemaPool, result

vars == <<heap, rootSchemaPool, result>>

-----------------------------------------------------------------------------
(* JSON values, as encoding/json decodes them into interface{}.            *)

JNull == [t |-> "null"]

JBool(b) == [t |-> "bool", b |-> b]

JNum(h) == [t |-> "num", h |-> h]

JStr(s) == [t |-> "str", s |-> s]

JArr(a) == [t |-> "arr", a |-> a]

JObj(o) == [t |-> "obj", o |-> o]

N(i) == JNum(2 * i)

W(w) == JStr(<<w>>)

EmptyMap == <<>>

JTrue == JBool(TRUE)

JFalse == JBool(FALSE)

IsObj(v) == v.t = "obj"

IsArr(v) == v.t = "arr"

IsStr(v) == v.t = "str"

IsNum(v) == v.t = "num"

IsBool(v) == v.t = "bool"

IsNull(v) == v.t = "null"

(* encoding/json writes a []byte value that has no MarshalJSON as a base64 *)
(* string: the result is a JSON string that spells the bytes of `v`.       *)
Base64(v) == [t |-> "str", s |-> <<"base64">>, of |-> v]

-----------------------------------------------------------------------------
(* The fields of JsonSchema, by the Go type that decodes them.             *)

StringKw == {"$ref", "$id", "pattern", "format"}

IntKw == {"minLength", "maxLength", "minProperties", "maxProperties",
          "minItems", "maxItems"}

FloatKw == {"multipleOf", "minimum", "maximum", "exclusiveMinimum",
            "exclusiveMaximum"}

SchemaKw == {"additionalProperties", "propertyNames", "contains",
             "additionalItems", "not", "if", "then", "else"}

SchemaMapKw == {"properties", "patternProperties", "definitions"}

SchemaListKw == {"anyOf", "allOf", "oneOf"}

Keywords == StringKw \cup IntKw \cup FloatKw \cup SchemaKw \cup SchemaMapKw
              \cup SchemaListKw
              \cup {"rejectAll", "uniqueItems", "type", "items", "const",
                    "enum", "required", "dependencies"}

Has(js, k) == k \in DOMAIN js

(* A nil *JsonSchema: what JSON null decodes to in a map or slice of       *)
(* schema pointers.                                                        *)
NilSchema == [nil |-> TRUE]

IsNilSchema(js) == "nil" \in DOMAIN js

(* A struct that embeds JsonSchema (additionalProperties, not, _if, ...):  *)
(* the embedded schema and the sibling pointers connectRelatedKeywords     *)
(* sets, by sibling name.                                                  *)
Sub(js, link) == [js |-> js, link |-> link]

(* A dependency: a compiled sub-schema or the decoded JSON value.          *)
DepSchema(js) == [d |-> "schema", js |-> js]

DepRaw(v) == [d |-> "raw", v |-> v]

-----------------------------------------------------------------------------
(* Decoding: encoding/json into the fields of tempJsonSchema.              *)

Ok(v) == [err |-> FALSE, nil |-> FALSE, v |-> v]

Nil == [err |-> FALSE, nil |-> TRUE]

Err == [err |-> TRUE, nil |-> FALSE]

IsStrings(a) == \A i \in DOMAIN a : IsStr(a[i])

(* The decoders call one another: a schema holds schemas.                  *)
RECURSIVE UnmarshalJSON(_), DecodeStruct(_), DecodeField(_, _)

RECURSIVE DecodeSchemaPtr(_), DecodeSchemaElem(_)

PtrOf(r) == IF r.err THEN Err ELSE Ok(r.js)

(* A *JsonSchema, or a pointer to a struct that embeds JsonSchema: JSON    *)
(* null leaves the pointer nil, anything else goes to UnmarshalJSON.       *)
DecodeSchemaPtr(v) == IF IsNull(v) THEN Nil ELSE PtrOf(UnmarshalJSON(v))

ElemOf(r) == IF r.err THEN Err ELSE IF r.nil THEN Ok(NilSchema) ELSE r

(* An element of a map or a slice of *JsonSchema.                          *)
DecodeSchemaElem(v) == ElemOf(DecodeSchemaPtr(v))

SubOf(r) == IF r.err THEN Err ELSE Ok(Sub(r.v, EmptyMap))

(* A map or a slice decodes iff each of its elements does.                 *)
Elems(d) ==
    IF \E p \in DOMAIN d : d[p].err THEN Err ELSE Ok([p \in DOMAIN d |-> d[p].v])

DecodeField(k, v) ==
    IF k = "items" THEN Ok(v)
    ELSE IF IsNull(v) THEN Nil
    ELSE IF k \in StringKw THEN (IF IsStr(v) THEN Ok(v.s) ELSE Err)
    ELSE IF k \in IntKw
         THEN (IF IsNum(v) /\ v.h % 2 = 0 THEN Ok(v.h \div 2) ELSE Err)
    ELSE IF k \in FloatKw THEN (IF IsNum(v) THEN Ok(v.h) ELSE Err)
    ELSE IF k = "uniqueItems" THEN (IF IsBool(v) THEN Ok(v.b) ELSE Err)
    ELSE IF k = "rejectAll"
         THEN (IF ~IsBool(v) THEN Err ELSE IF v.b THEN Ok(TRUE) ELSE Nil)
    ELSE IF k \in {"type", "const"} THEN Ok(v)
    ELSE IF k = "enum" THEN (IF IsArr(v) THEN Ok(v.a) ELSE Err)
    ELSE IF k = "required"
         THEN (IF IsArr(v) /\ IsStrings(v.a)
               THEN Ok([i \in DOMAIN v.a |-> v.a[i].s]) ELSE Err)
    ELSE IF k = "dependencies"
         THEN (IF IsObj(v) THEN Ok([p \in DOMAIN v.o |-> DepRaw(v.o[p])])
               ELSE Err)
    ELSE IF k \in SchemaKw THEN SubOf(DecodeSchemaPtr(v))
    ELSE IF ~(IF k \in SchemaMapKw THEN IsObj(v) ELSE IsArr(v)) THEN Err
    ELSE Elems([p \in (IF k \in SchemaMapKw THEN DOMAIN v.o ELSE DOMAIN v.a) |->
                  DecodeSchemaElem(IF k \in SchemaMapKw THEN v.o[p] ELSE v.a[p])])

Fields(dec) ==
    LET kept == {k \in DOMAIN dec : ~dec[k].err /\ ~dec[k].nil}
    IN  IF \E k \in DOMAIN dec : dec[k].err THEN [err |-> TRUE]
        ELSE [err |-> FALSE, js |-> [k \in kept |-> dec[k].v]]

(* json.Unmarshal(bytes, tempSchema): the known keys are decoded by field  *)
(* type, the others are skipped; one field that does not decode fails the  *)
(* whole call.                                                             *)
DecodeStruct(o) ==
    Fields([k \in {k \in Keywords : <<k>> \in DOMAIN o} |-> DecodeField(k, o[<<k>>])])

(* A decoder that takes the boolean false for the boolean true.            *)
UnmarshalJSON_FalseAsTrue(v) ==
    IF IsObj(v) \/ IsBool(v) THEN DecodeStruct(IF IsObj(v) THEN v.o ELSE EmptyMap)
    ELSE [err |-> TRUE]

(* A boolean document is decoded from the text "{}" or                     *)
(* "{\"rejectAll\": true}".                                                *)
UnmarshalJSON(v) ==
    IF IsObj(v) \/ IsBool(v)
    THEN DecodeStruct(IF IsObj(v) THEN v.o
                      ELSE IF v.b THEN EmptyMap ELSE <<"rejectAll">> :> JTrue)
    ELSE [err |-> TRUE]

EmptySchema == UnmarshalJSON(JTrue).js

-----------------------------------------------------------------------------
(* Encoding: json.Marshal of a JsonSchema value, as scanSchema uses it to  *)
(* write a scanned "items" back.  JsonSchema has no MarshalJSON, so the    *)
(* struct encoder applies: omitempty drops nil pointers and empty slices   *)
(* and maps, unexported sibling pointers are not written, and the []byte   *)
(* types without MarshalJSON (items, _const) are written in base64.        *)

RECURSIVE MarshalJSON(_), MarshalField(_, _)

OmitEmpty(k, x) ==
    /\ k \in SchemaMapKw \cup SchemaListKw \cup {"enum", "required", "dependencies"}
    /\ DOMAIN x = {}

MarshalField(k, x) ==
    IF k \in StringKw THEN JStr(x)
    ELSE IF k \in IntKw THEN N(x)
    ELSE IF k \in FloatKw THEN JNum(x)
    ELSE IF k \in {"uniqueItems", "rejectAll"} THEN JBool(x)
    ELSE IF k = "type" THEN x
    ELSE IF k \in {"items", "const"} THEN Base64(x)
    ELSE IF k = "enum" THEN JArr(x)
    ELSE IF k = "required" THEN JArr([i \in DOMAIN x |-> JStr(x[i])])
    ELSE IF k = "dependencies"
         THEN JObj([p \in DOMAIN x |->
                      IF x[p].d = "schema" THEN MarshalJSON(x[p].js) ELSE x[p].v])
    ELSE IF k \in SchemaKw THEN MarshalJSON(x.js)
    ELSE IF k \in SchemaMapKw THEN JObj([p \in DOMAIN x |-> MarshalJSON(x[p])])
    ELSE JArr([i \in DOMAIN x |-> MarshalJSON(x[i])])

MarshalJSON(js) ==
    IF IsNilSchema(js) THEN JNull
    ELSE LET kept == {k \in DOMAIN js : ~OmitEmpty(k, js[k])}
         IN  JObj([key \in {<<k>> : k \in kept} |-> MarshalField(key[1], js[key[1]])])

-----------------------------------------------------------------------------
(* Compilation: scanSchema walks a decoded schema, links the sibling       *)
(* keywords and records every sub-schema in the root's subSchemaMap.       *)

Digit == <<"0", "1", "2", "3", "4", "5", "6", "7", "8", "9">>

RECURSIVE Itoa(_)

Itoa(n) ==
    IF n < 0 THEN <<"-">> \o Itoa(-n)
    ELSE IF n < 10 THEN <<Digit[n + 1]>>
    ELSE Itoa(n \div 10) \o <<Digit[(n % 10) + 1]>>

RECURSIVE SetToSeq(_)

(* The keys of a Go map in one order of iteration.                         *)
SetToSeq(S) ==
    IF S = {} THEN <<>>
    ELSE LET x == CHOOSE y \in S : TRUE IN <<x>> \o SetToSeq(S \ {x})

Slot(kw, key) == [kw |-> kw, key |-> key]

MapSlots(js, kw) ==
    IF Has(js, kw)
    THEN LET keys == SetToSeq(DOMAIN js[kw])
         IN  [i \in DOMAIN keys |-> Slot(kw, keys[i])]
    ELSE <<>>

ListSlots(js, kw) ==
    IF Has(js, kw) THEN [i \in DOMAIN js[kw] |-> Slot(kw, i)] ELSE <<>>

OneSlot(js, kw) == IF Has(js, kw) THEN <<Slot(kw, 0)>> ELSE <<>>

(* The sub-schemas of a schema in the order scanSchema visits them; "then" *)
(* and "else" are visited only beside an "if".                             *)
Slots(js) ==
    MapSlots(js, "properties") \o OneSlot(js, "additionalProperties")
      \o OneSlot(js, "propertyNames") \o MapSlots(js, "dependencies")
      \o MapSlots(js, "patternProperties") \o MapSlots(js, "definitions")
      \o OneSlot(js, "items") \o OneSlot(js, "additionalItems")
      \o OneSlot(js, "contains") \o ListSlots(js, "anyOf")
      \o ListSlots(js, "allOf") \o ListSlots(js, "oneOf") \o OneSlot(js, "not")
      \o (IF Has(js, "if")
          THEN OneSlot(js, "if") \o OneSlot(js, "then") \o OneSlot(js, "else")
          ELSE <<>>)

Linked(js, sub, siblings) ==
    [js[sub] EXCEPT !.link = [k \in siblings \cap DOMAIN js |-> js[k]]]

(* The siblings are held by address, so a validator sees the sibling as    *)
(* scanSchema left it.                                                     *)
connectRelatedKeywords(js) ==
    LET a == IF Has(js, "additionalProperties")
             THEN [js EXCEPT !["additionalProperties"] =
                     Linked(js, "additionalProperties",
                            {"properties", "patternProperties"})]
             ELSE js
        b == IF Has(a, "additionalItems")
             THEN [a EXCEPT !["additionalItems"] =
                     Linked(a, "additionalItems", {"items"})]
             ELSE a
    IN  IF Has(b, "if")
        THEN [b EXCEPT !["if"] = Linked(b, "if", {"then", "else"})]
        ELSE b

mapSubSchema(idx, schemaPath, rootSchemaID, js) ==
    IF schemaPath # <<>> /\ rootSchemaID # <<>> /\ schemaPath \notin DOMAIN idx
    THEN (schemaPath :> js) @@ idx
    ELSE idx

Scanned(js, idx, err) == [js |-> js, idx |-> idx, err |-> err, stop |-> FALSE]

RECURSIVE scanSchema(_, _, _, _), ScanSlot(_, _, _, _), ScanSlots(_, _, _, _, _)

RECURSIVE ScanItems(_, _, _), ItemsDecoded(_, _, _, _)

RECURSIVE ScanItemsArray(_, _, _, _, _), ItemDecoded(_, _, _, _, _, _), ItemScanned(_, _, _, _, _, _)

RECURSIVE ScanDependency(_, _, _, _), DependencyDecoded(_, _, _, _, _)

(* An element of an "items" array has been scanned.  A failure makes       *)
(* scanSchema return nil at once, leaving "items" as it was and the        *)
(* keywords after it unscanned; otherwise the element is written back.     *)
ItemScanned(st, v, i, schemaPath, rootSchemaID, r) ==
    IF r.err = "panic" THEN [st EXCEPT !.idx = r.idx, !.err = "panic"]
    ELSE IF r.err # "none" THEN [st EXCEPT !.idx = r.idx, !.stop = TRUE]
    ELSE ScanItemsArray([st EXCEPT !.idx = r.idx], [v EXCEPT ![i] = MarshalJSON(r.js)],
                        i + 1, schemaPath, rootSchemaID)

(* An element that does not decode is a SchemaCompilationError.            *)
ItemDecoded(st, v, i, schemaPath, rootSchemaID, u) ==
    IF u.err THEN [st EXCEPT !.err = "error"]
    ELSE ItemScanned(st, v, i, schemaPath, rootSchemaID,
                     scanSchema(u.js, schemaPath \o <<"/", "items">> \o Itoa(i - 1),
                                rootSchemaID, st.idx))

(* The array case of "items": each element is decoded and scanned in turn, *)
(* and the array is encoded back into "items" at the end.                  *)
ScanItemsArray(st, v, i, schemaPath, rootSchemaID) ==
    IF i > Len(v)
    THEN [st EXCEPT !.js = [st.js EXCEPT !["items"] = JArr(v)]]
    ELSE ItemDecoded(st, v, i, schemaPath, rootSchemaID, UnmarshalJSON(v[i]))

(* A scanned sub-schema that scanSchema encodes back into "items".         *)
ItemsScanned(st, r) ==
    IF r.err # "none" THEN [st EXCEPT !.idx = r.idx, !.err = r.err]
    ELSE [st EXCEPT !.idx = r.idx,
                    !.js = [st.js EXCEPT !["items"] = MarshalJSON(r.js)]]

ItemsDecoded(st, schemaPath, rootSchemaID, u) ==
    IF u.err THEN [st EXCEPT !.err = "error"]
    ELSE ItemsScanned(st, scanSchema(u.js, schemaPath \o <<"/", "items">>,
                                     rootSchemaID, st.idx))

(* "items" that is neither an object, a boolean nor an array is left as    *)
(* it is.                                                                  *)
ScanItems(st, schemaPath, rootSchemaID) ==
    IF IsObj(st.js["items"]) \/ IsBool(st.js["items"])
    THEN ItemsDecoded(st, schemaPath, rootSchemaID, UnmarshalJSON(st.js["items"]))
    ELSE IF IsArr(st.js["items"])
    THEN ScanItemsArray(st, st.js["items"].a, 1, schemaPath, rootSchemaID)
    ELSE st

(* The scanned sub-schema takes the place of the decoded dependency.       *)
DependencyScanned(st, key, r) ==
    IF r.err # "none" THEN [st EXCEPT !.idx = r.idx, !.err = r.err]
    ELSE [st EXCEPT !.idx = r.idx,
                    !.js = [st.js EXCEPT !["dependencies"][key] = DepSchema(r.js)]]

DependencyDecoded(st, key, schemaPath, rootSchemaID, u) ==
    IF u.err THEN [st EXCEPT !.err = "error"]
    ELSE DependencyScanned(st, key,
                           scanSchema(u.js, schemaPath \o <<"/", "dependencies">> \o key,
                                      rootSchemaID, st.idx))

(* Only a dependency that is a JSON object is compiled.                    *)
ScanDependency(st, key, schemaPath, rootSchemaID) ==
    IF st.js["dependencies"][key].d = "raw" /\ IsObj(st.js["dependencies"][key].v)
    THEN DependencyDecoded(st, key, schemaPath, rootSchemaID,
                           UnmarshalJSON(st.js["dependencies"][key].v))
    ELSE st

SubScanned(st, kw, r) ==
    [st EXCEPT !.idx = r.idx, !.err = r.err, !.js = [st.js EXCEPT ![kw].js = r.js]]

ElemScanned(st, kw, key, r) ==
    [st EXCEPT !.idx = r.idx, !.err = r.err, !.js = [st.js EXCEPT ![kw][key] = r.js]]

ScanSlot(st, slot, schemaPath, rootSchemaID) ==
    IF slot.kw = "items" THEN ScanItems(st, schemaPath, rootSchemaID)
    ELSE IF slot.kw = "dependencies"
    THEN ScanDependency(st, slot.key, schemaPath, rootSchemaID)
    ELSE IF slot.kw \in SchemaKw
    THEN SubScanned(st, slot.kw,
                    scanSchema(st.js[slot.kw].js, schemaPath \o <<"/", slot.kw>>,
                               rootSchemaID, st.idx))
    ELSE ElemScanned(st, slot.kw, slot.key,
                     scanSchema(st.js[slot.kw][slot.key],
                                schemaPath \o <<"/", slot.kw, "/">>
                                  \o (IF slot.kw \in SchemaMapKw THEN slot.key
                                      ELSE Itoa(slot.key - 1)),
                                rootSchemaID, st.idx))

ScanSlots(st, slots, i, schemaPath, rootSchemaID) ==
    IF i > Len(slots) \/ st.err # "none" \/ st.stop THEN st
    ELSE ScanSlots(ScanSlot(st, slots[i], schemaPath, rootSchemaID), slots, i + 1,
                   schemaPath, rootSchemaID)

Mapped(js, r, schemaPath, rootSchemaID) ==
    Scanned(js, mapSubSchema(r.idx, schemaPath, rootSchemaID, js), r.err)

Walked(r, schemaPath, rootSchemaID) ==
    Mapped(connectRelatedKeywords(r.js), r, schemaPath, rootSchemaID)

(* scanSchema(schemaPath, rootSchemaID) on the schema js, with idx the     *)
(* subSchemaMap of rootSchemaPool[rootSchemaID].  A nil receiver (JSON     *)
(* null among "properties", "anyOf", ...) is dereferenced: a panic.  The   *)
(* map holds pointers, so the entry of a schema is the schema as the walk  *)
(* leaves it.                                                              *)
scanSchema(js, schemaPath, rootSchemaID, idx) ==
    IF IsNilSchema(js) THEN Scanned(js, idx, "panic")
    ELSE Walked(ScanSlots(Scanned(js, idx, "none"), Slots(js), 1, schemaPath, rootSchemaID),
                schemaPath, rootSchemaID)

-----------------------------------------------------------------------------
(* Strings (package strings, strconv) and the JSON-Pointer evaluator.      *)

Range(f) == {f[i] : i \in DOMAIN f}

Last(s) == s[Len(s)]

(* The positions of the separator symbol in s.                             *)
Cuts(s, sep) == {i \in DOMAIN s : s[i] = sep}

RECURSIVE Split(_, _)

(* strings.Split(s, sep) for a one-symbol separator.                       *)
Split(s, sep) ==
    IF Cuts(s, sep) = {} THEN <<s>>
    ELSE LET i == CHOOSE c \in Cuts(s, sep) : \A d \in Cuts(s, sep) : c <= d
         IN  <<SubSeq(s, 1, i - 1)>> \o Split(SubSeq(s, i + 1, Len(s)), sep)

DigitValue(c) == (CHOOSE i \in DOMAIN Digit : Digit[i] = c) - 1

IsDigits(s) == s # <<>> /\ \A i \in DOMAIN s : s[i] \in Range(Digit)

RECURSIVE DigitsValue(_)

DigitsValue(s) ==
    IF s = <<>> THEN 0 ELSE 10 * DigitsValue(SubSeq(s, 1, Len(s) - 1)) + DigitValue(Last(s))

(* strconv.Atoi: an optional sign, then decimal digits.                    *)
Atoi(s) ==
    LET signed == s # <<>> /\ s[1] \in {"-", "+"}
        body == IF signed THEN Tail(s) ELSE s
    IN  IF ~IsDigits(body) THEN [err |-> TRUE, v |-> 0]
        ELSE [err |-> FALSE,
              v |-> IF signed /\ s[1] = "-" THEN -DigitsValue(body) ELSE DigitsValue(body)]

(* A []byte of JSON text and what json.Unmarshal into interface{} makes of *)
(* it.  json.Marshal writes the canonical text of a decoded value (object  *)
(* keys sorted, no white space), so two decoded values have the same bytes *)
(* iff they are the same value.                                            *)
Marshal(v) == [raw |-> v]

Unmarshal(bytes) == bytes.raw

NewJsonPointer(path) ==
    IF path = <<>> \/ path = <<"/">> THEN [err |-> FALSE, jp |-> <<>>]
    ELSE IF path[1] # "/" THEN [err |-> TRUE, jp |-> <<>>]
    ELSE [err |-> FALSE, jp |-> Tail(Split(path, "/"))]

(* evaluateToken: "ok" with the value, "error", or "panic" when an array   *)
(* is indexed outside its bounds (v[index] is not guarded).                *)
evaluateToken(token, data) ==
    IF IsObj(data)
    THEN (IF token \in DOMAIN data.o THEN [k |-> "ok", v |-> data.o[token]]
          ELSE [k |-> "error", v |-> JNull])
    ELSE IF IsArr(data)
    THEN (LET n == Atoi(token)
          IN  IF n.err THEN [k |-> "error", v |-> JNull]
              ELSE IF n.v < 0 \/ n.v >= Len(data.a) THEN [k |-> "panic", v |-> JNull]
              ELSE [k |-> "ok", v |-> data.a[n.v + 1]])
    ELSE [k |-> "error", v |-> JNull]

RECURSIVE EvaluateFrom(_, _, _)

EvaluateFrom(jp, i, data) ==
    IF i > Len(jp) THEN [k |-> "ok", v |-> data]
    ELSE LET r == evaluateToken(jp[i], data)
         IN  IF r.k # "ok" THEN r ELSE EvaluateFrom(jp, i + 1, r.v)

Evaluate(jp, bytes) == EvaluateFrom(jp, 1, Unmarshal(bytes))

-----------------------------------------------------------------------------
(* What a validate call can end in: nil ("ok"), one of the error types of  *)
(* errors.go, another Go error ("error": a wrapped JSON-Pointer or JSON    *)
(* error), a run-time panic, or the exhaustion of the goroutine stack.     *)
(* A validator that ranges over a Go map visits the keys in an unspecified *)
(* order, so a call is modelled by the set of outcomes it can end in.      *)

Out(k, path, kw) == [k |-> k, path |-> path, kw |-> kw]

OkOut == Out("ok", <<>>, "")

KeywordValidationError(kw) == Out("KeywordValidationError", <<>>, kw)

(* kw: the keyword whose message the error quotes ("" for a schema false). *)
SchemaValidationError(path, kw) == Out("SchemaValidationError", path, kw)

InvalidReferenceError == Out("InvalidReferenceError", <<>>, "")

GoError == Out("error", <<>>, "")

Panic == Out("panic", <<>>, "")

StackOverflow == Out("overflow", <<>>, "")

IsCrash(r) == r.k \in {"panic", "overflow"}

IsNil(r) == r.k = "ok"

(* err != nil: the call returned, and returned an error.                   *)
IsErr(r) == ~IsNil(r) /\ ~IsCrash(r)

Crashes(S) == {r \in S : IsCrash(r)}

Errs(S) == {r \in S : IsErr(r)}

CanPass(S) == \E r \in S : IsNil(r)

CanFail(S) == \E r \in S : IsErr(r)

(* A loop over a Go map that returns at the first failure: any failing key *)
(* may come first; the loop ends in nil iff every key can pass.            *)
AnyOrder(keys, outs) ==
    UNION {{r \in outs[x] : ~IsNil(r)} : x \in keys}
      \cup (IF \A x \in keys : CanPass(outs[x]) THEN {OkOut} ELSE {})

-----------------------------------------------------------------------------
(* Regular expressions and formats.  A pattern is a literal with an        *)
(* optional leading "^" and trailing "$"; the symbol "(" stands for a      *)
(* pattern that regexp cannot compile.                                     *)

RegexCompiles(p) == "(" \notin Range(p)

Occurs(lit, s, at) == at + Len(lit) - 1 <= Len(s) /\ SubSeq(s, at, at + Len(lit) - 1) = lit

MatchString(p, s) ==
    LET head == p # <<>> /\ p[1] = "^"
        p1 == IF head THEN Tail(p) ELSE p
        tail == p1 # <<>> /\ Last(p1) = "$"
        lit == IF tail THEN SubSeq(p1, 1, Len(p1) - 1) ELSE p1
        starts == {at \in 1..(Len(s) + 1) : Occurs(lit, s, at)}
    IN  \E at \in starts : /\ head => at = 1
                           /\ tail => at + Len(lit) - 1 = Len(s)

(* A checker that looks at the first character only.                       *)
IsValidJSONPointer_FirstOnly(jsonPointer) ==
    Len(jsonPointer) = 0 \/ jsonPointer[1] = "/"

(* IsValidJSONPointer: nil (TRUE) or an error (FALSE).                     *)
IsValidJSONPointer(jsonPointer) ==
    IF Len(jsonPointer) = 0 THEN TRUE
    ELSE IF jsonPointer[1] # "/" THEN FALSE
    ELSE LET str == Tail(jsonPointer)
         IN  /\ ~\E i \in 1..(Len(str) - 1) : str[i] = "~" /\ str[i + 1] \notin {"0", "1"}
             /\ ~(str # <<>> /\ Last(str) = "~")

(* IsValidRelJSONPointer: `return err` also runs when Atoi succeeded with  *)
(* a negative number, and err is nil then.                                 *)
IsValidRelJSONPointer(relJSONPointer) ==
    LET bySlash == Split(relJSONPointer, "/")
        parts == IF Len(bySlash) = 1 THEN Split(relJSONPointer, "#") ELSE bySlash
        n == Atoi(parts[1])
        str == SubSeq(relJSONPointer, Len(parts[1]) + 1, Len(relJSONPointer))
    IN  IF n.err THEN FALSE
        ELSE IF n.v < 0 THEN TRUE
        ELSE IF Len(str) > 0 /\ str[1] = "#" THEN TRUE
        ELSE IsValidJSONPointer(str)

(* The format names format.validate knows.  The checkers that rest on the  *)
(* parsers of time, net, net/mail, net/url and regexp are not modelled:    *)
(* for them either answer is taken to be possible.                         *)
ParsedFormats == {"date-time", "time", "date", "email", "idn-email", "hostname",
                  "idn-hostname", "ipv4", "ipv6", "uri", "uri-reference", "iri",
                  "iri-reference", "uri-template", "regex"}

(* The symbol "e-acute" is the one character U+00E9, two bytes of UTF-8.    *)
Utf8Len(c) == IF c = "e-acute" THEN 2 ELSE 1

RECURSIVE ByteLen(_)

(* len(v) of a Go string: its length in bytes.                             *)
ByteLen(s) == IF s = <<>> THEN 0 ELSE Utf8Len(s[1]) + ByteLen(Tail(s))

-----------------------------------------------------------------------------
(* The keyword validators that do not recurse into a sub-schema.           *)

JsonData(value) == [raw |-> Marshal(value), value |-> value]

Verdict(ok, kw) == IF ok THEN {OkOut} ELSE {KeywordValidationError(kw)}

assertJsonType(jsonType, value) ==
    IF jsonType = <<"object">> THEN IsObj(value)
    ELSE IF jsonType = <<"array">> THEN IsArr(value)
    ELSE IF jsonType = <<"string">> THEN IsStr(value)
    ELSE IF jsonType = <<"integer">> THEN IsNum(value) /\ value.h % 2 = 0
    ELSE IF jsonType = <<"number">> THEN IsNum(value)
    ELSE IF jsonType = <<"boolean">> THEN IsBool(value)
    ELSE IF jsonType = <<"null">> THEN IsNull(value)
    ELSE FALSE

RECURSIVE TypeList(_, _, _)

TypeList(types, i, value) ==
    IF i > Len(types) THEN FALSE
    ELSE IF ~IsStr(types[i]) THEN FALSE
    ELSE IF assertJsonType(types[i].s, value) THEN TRUE
    ELSE TypeList(types, i + 1, value)

type_validate(t, jd) ==
    IF IsArr(t) THEN Verdict(TypeList(t.a, 1, jd.value), "type")
    ELSE IF IsStr(t) THEN Verdict(assertJsonType(t.s, jd.value), "type")
    ELSE {KeywordValidationError("type")}

enum_validate(e, jd) ==
    Verdict(\E i \in DOMAIN e : Marshal(e[i]) = jd.raw, "enum")

const_validate(c, jd) == Verdict(Marshal(c) = jd.raw, "const")

minLength_validate(ml, jd) ==
    IF IsStr(jd.value) THEN Verdict(ByteLen(jd.value.s) >= ml, "minLength") ELSE {OkOut}

maxLength_validate(ml, jd) ==
    IF IsStr(jd.value) THEN Verdict(ByteLen(jd.value.s) <= ml, "maxLength") ELSE {OkOut}

pattern_validate(p, jd) ==
    IF IsStr(jd.value)
    THEN Verdict(RegexCompiles(p) /\ MatchString(p, jd.value.s), "pattern")
    ELSE {OkOut}

format_validate(f, jd) ==
    IF ~IsStr(jd.value) THEN {OkOut}
    ELSE IF f = <<"json-pointer">> THEN Verdict(IsValidJSONPointer(jd.value.s), "format")
    ELSE IF f = <<"relative-json-pointer">>
         THEN Verdict(IsValidRelJSONPointer(jd.value.s), "format")
    ELSE IF Len(f) = 1 /\ f[1] \in ParsedFormats
         THEN {OkOut, KeywordValidationError("format")}
    ELSE {OkOut}

(* math.Mod(v, mo) == 0, on halves; with mo = 0 the result is NaN.         *)
multipleOf_validate(mo, jd) ==
    IF IsNum(jd.value)
    THEN Verdict(mo # 0 /\ jd.value.h % (IF mo < 0 THEN -mo ELSE IF mo = 0 THEN 1 ELSE mo) = 0,
                 "multipleOf")
    ELSE {OkOut}

minimum_validate(m, jd) ==
    IF IsNum(jd.value) THEN Verdict(jd.value.h >= m, "minimum") ELSE {OkOut}

maximum_validate(m, jd) ==
    IF IsNum(jd.value) THEN Verdict(jd.value.h <= m, "maximum") ELSE {OkOut}

exclusiveMinimum_validate(em, jd) ==
    IF IsNum(jd.value) THEN Verdict(jd.value.h > em, "exclusiveMinimum") ELSE {OkOut}

exclusiveMaximum_validate(em, jd) ==
    IF IsNum(jd.value) THEN Verdict(jd.value.h < em, "exclusiveMaximum") ELSE {OkOut}

(* object[property] == nil: true of a missing key and of a key whose value *)
(* is JSON null.                                                           *)
required_validate(r, jd) ==
    IF IsObj(jd.value)
    THEN Verdict(\A i \in DOMAIN r :
                    r[i] \in DOMAIN jd.value.o /\ ~IsNull(jd.value.o[r[i]]),
                 "required")
    ELSE {OkOut}

minProperties_validate(mp, jd) ==
    IF IsObj(jd.value)
    THEN Verdict(Cardinality(DOMAIN jd.value.o) >= mp, "minProperties")
    ELSE {OkOut}

maxProperties_validate(mp, jd) ==
    IF IsObj(jd.value)
    THEN Verdict(Cardinality(DOMAIN jd.value.o) <= mp, "minProperties")
    ELSE {OkOut}

minItems_validate(mi, jd) ==
    IF IsArr(jd.value) THEN Verdict(Len(jd.value.a) >= mi, "minItems") ELSE {OkOut}

maxItems_validate(mi, jd) ==
    IF IsArr(jd.value) THEN Verdict(Len(jd.value.a) <= mi, "maxItems") ELSE {OkOut}

(* The receiver, the boolean of the schema, is never read.                 *)
uniqueItems_validate(ui, jd) ==
    IF IsArr(jd.value)
    THEN Verdict(\A i, j \in DOMAIN jd.value.a :
                    i # j => Marshal(jd.value.a[i]) # Marshal(jd.value.a[j]),
                 "uniqueItems")
    ELSE {OkOut}

-----------------------------------------------------------------------------
(* Validation.  env holds the heap of root schemas and rootSchemaPool;     *)
(* fuel is the room left on the goroutine stack, in calls.                 *)

AsKeywordError(S, kw) ==
    Crashes(S) \cup (IF CanFail(S) THEN {KeywordValidationError(kw)} ELSE {})
      \cup (IF CanPass(S) THEN {OkOut} ELSE {})

RECURSIVE SeqAll(_, _)

(* A loop over a slice that returns the first error.                       *)
SeqAll(outs, i) ==
    IF i > Len(outs) THEN {OkOut}
    ELSE {r \in outs[i] : ~IsNil(r)}
           \cup (IF CanPass(outs[i]) THEN SeqAll(outs, i + 1) ELSE {})

RECURSIVE SeqAny(_, _, _)

(* A loop over a slice that returns nil at the first success, and the      *)
(* error `as` when it runs out.                                            *)
SeqAny(outs, i, as) ==
    IF i > Len(outs) THEN {as}
    ELSE Crashes(outs[i]) \cup (IF CanPass(outs[i]) THEN {OkOut} ELSE {})
           \cup (IF CanFail(outs[i]) THEN SeqAny(outs, i + 1, as) ELSE {})

RECURSIVE OneOfFrom(_, _, _)

OneOfFrom(outs, i, oneValidationAlreadySucceeded) ==
    IF i > Len(outs)
    THEN Verdict(oneValidationAlreadySucceeded, "oneOf")
    ELSE Crashes(outs[i])
           \cup (IF CanPass(outs[i])
                 THEN (IF oneValidationAlreadySucceeded
                       THEN {KeywordValidationError("oneOf")}
                       ELSE OneOfFrom(outs, i + 1, TRUE))
                 ELSE {})
           \cup (IF CanFail(outs[i])
                 THEN OneOfFrom(outs, i + 1, oneValidationAlreadySucceeded)
                 ELSE {})

(* validateJsonData and the validators of the keywords that hold schemas   *)
(* call one another.                                                       *)
RECURSIVE validateJsonData(_, _, _, _, _, _), validateByRef(_, _, _, _, _, _)

RECURSIVE ValidateAt(_, _, _, _, _, _, _), ValidateValue(_, _, _, _, _, _, _)

RECURSIVE ValidateKeywords(_, _, _, _, _, _, _, _), keyword_validate(_, _, _, _, _, _, _)

RECURSIVE properties_validate(_, _, _, _, _, _), additionalProperties_validate(_, _, _, _, _, _)

RECURSIVE propertyNames_validate(_, _, _, _, _, _), dependencies_validate(_, _, _, _, _, _)

RECURSIVE patternProperties_validate(_, _, _, _, _, _), items_validate(_, _, _, _, _, _)

RECURSIVE ItemAt(_, _, _, _, _, _, _), ItemsEach(_, _, _, _, _, _)

RECURSIVE additionalItems_validate(_, _, _, _, _, _)

RECURSIVE contains_validate(_, _, _, _, _, _), Each(_, _, _, _, _)

RECURSIVE anyOf_validate(_, _, _, _, _, _), allOf_validate(_, _, _, _, _, _)

RECURSIVE oneOf_validate(_, _, _, _, _, _), not_validate(_, _, _, _, _, _)

RECURSIVE if_validate(_, _, _, _, _, _), Branch(_, _, _, _, _, _, _)

(* The schema a reference names: the root registered under the URI, or the *)
(* entry of its subSchemaMap under the fragment.                           *)
Resolve(schemaURI, fragment, env) ==
    IF schemaURI \notin DOMAIN env.pool THEN [found |-> FALSE]
    ELSE IF fragment = <<>>
    THEN [found |-> TRUE, js |-> env.heap[env.pool[schemaURI]].js]
    ELSE IF fragment \in DOMAIN env.heap[env.pool[schemaURI]].subSchemaMap
    THEN [found |-> TRUE, js |-> env.heap[env.pool[schemaURI]].subSchemaMap[fragment]]
    ELSE [found |-> FALSE]

(* splittedRef[1] is read whatever the reference holds: without a "#" it   *)
(* is out of range.  The referenced schema is validated under the          *)
(* rootSchemaID of the referring one.                                      *)
validateByRef(r, jsonPath, jsonData, rootSchemaID, env, fuel) ==
    IF Len(Split(r, "#")) < 2 THEN {Panic}
    ELSE IF ~Resolve(IF Split(r, "#")[1] = <<>> THEN rootSchemaID ELSE Split(r, "#")[1],
                     Split(r, "#")[2], env).found
    THEN {InvalidReferenceError}
    ELSE validateJsonData(
           Resolve(IF Split(r, "#")[1] = <<>> THEN rootSchemaID ELSE Split(r, "#")[1],
                   Split(r, "#")[2], env).js,
           jsonPath, jsonData, rootSchemaID, env, fuel)

properties_validate(p, jsonPath, jd, rootSchemaId, env, fuel) ==
    IF IsObj(jd.value)
    THEN AnyOrder(DOMAIN p \cap DOMAIN jd.value.o,
                  [key \in DOMAIN p \cap DOMAIN jd.value.o |->
                     validateJsonData(p[key], jsonPath \o <<"/">> \o key, jd.raw,
                                      rootSchemaId, env, fuel)])
    ELSE {OkOut}

Patterns(ap) ==
    IF "patternProperties" \in DOMAIN ap.link THEN DOMAIN ap.link["patternProperties"]
    ELSE {}

validatedByProperties(ap, property) ==
    "properties" \in DOMAIN ap.link /\ property \in DOMAIN ap.link["properties"]

validatedByPatternProperties(ap, property) ==
    \E pattern \in Patterns(ap) : MatchString(pattern, property)

additionalProperties_validate(ap, jsonPath, jd, rootSchemaId, env, fuel) ==
    IF IsObj(jd.value)
    THEN AnyOrder(DOMAIN jd.value.o,
                  [property \in DOMAIN jd.value.o |->
                     IF \E pattern \in Patterns(ap) : ~RegexCompiles(pattern)
                     THEN {KeywordValidationError("additionalProperties")}
                     ELSE IF validatedByProperties(ap, property)
                             \/ validatedByPatternProperties(ap, property)
                     THEN {OkOut}
                     ELSE AsKeywordError(
                            validateJsonData(ap.js, jsonPath \o <<"/">> \o property,
                                             jd.raw, rootSchemaId, env, fuel),
                            "additionalProperties")])
    ELSE {OkOut}

propertyNames_validate(pn, jsonPath, jd, rootSchemaId, env, fuel) ==
    IF IsObj(jd.value)
    THEN AnyOrder(DOMAIN jd.value.o, [property \in DOMAIN jd.value.o |->
             AsKeywordError(validateJsonData(pn.js, <<>>, Marshal(JStr(property)),
                                             rootSchemaId, env, fuel),
                            "propertyNames")])
    ELSE {OkOut}

(* The array case does not look at the key of the dependency at all.       *)
dependencies_validate(d, jsonPath, jd, rootSchemaId, env, fuel) ==
    IF IsObj(jd.value)
    THEN AnyOrder(DOMAIN d,
                  [propertyName \in DOMAIN d |->
                     IF d[propertyName].d = "schema"
                     THEN (IF propertyName \in DOMAIN jd.value.o
                           THEN AsKeywordError(
                                  validateJsonData(d[propertyName].js, <<>>, jd.raw,
                                                   rootSchemaId, env, fuel),
                                  "dependencies")
                           ELSE {OkOut})
                     ELSE IF IsArr(d[propertyName].v)
                     THEN Verdict(\A i \in DOMAIN d[propertyName].v.a :
                                     /\ IsStr(d[propertyName].v.a[i])
                                     /\ d[propertyName].v.a[i].s \in DOMAIN jd.value.o,
                                  "dependencies")
                     ELSE {KeywordValidationError("dependencies")}])
    ELSE {OkOut}

patternProperties_validate(pp, jsonPath, jd, rootSchemaId, env, fuel) ==
    IF IsObj(jd.value)
    THEN AnyOrder((DOMAIN pp) \X (DOMAIN jd.value.o),
                  [pair \in (DOMAIN pp) \X (DOMAIN jd.value.o) |->
                     IF ~RegexCompiles(pair[1])
                     THEN {KeywordValidationError("patternProperties")}
                     ELSE IF MatchString(pair[1], pair[2])
                     THEN AsKeywordError(
                            validateJsonData(pp[pair[1]], jsonPath \o <<"/">> \o pair[2],
                                             jd.raw, rootSchemaId, env, fuel),
                            "patternProperties")
                     ELSE {OkOut}])
    ELSE {OkOut}

(* The array case: the element at `index` against the schema decoded from *)
(* the same position of "items".                                           *)
ItemAt(schema, index, jsonPath, jd, rootSchemaId, env, fuel) ==
    IF schema.err THEN {GoError}
    ELSE validateJsonData(schema.js, jsonPath \o <<"/">> \o Itoa(index), jd.raw,
                          rootSchemaId, env, fuel)

(* The object case: every element against the one decoded schema.         *)
ItemsEach(schema, jsonPath, jd, rootSchemaId, env, fuel) ==
    IF schema.err THEN {GoError}
    ELSE SeqAll([n \in DOMAIN jd.value.a |->
                   validateJsonData(schema.js, jsonPath \o <<"/">> \o Itoa(n - 1), jd.raw,
                                    rootSchemaId, env, fuel)], 1)

(* "items" is decoded again on every call; the schemas so made were never  *)
(* scanned, so they carry no sibling pointers.  An array of schemas longer *)
(* than the instance is an error.                                          *)
items_validate(i, jsonPath, jd, rootSchemaId, env, fuel) ==
    IF ~IsArr(jd.value) THEN {OkOut}
    ELSE IF IsObj(i)
    THEN ItemsEach(UnmarshalJSON(i), jsonPath, jd, rootSchemaId, env, fuel)
    ELSE IF ~IsArr(i) \/ Len(i.a) > Len(jd.value.a)
    THEN {KeywordValidationError("items")}
    ELSE SeqAll([n \in DOMAIN i.a |->
                   ItemAt(UnmarshalJSON(i.a[n]), n - 1, jsonPath, jd, rootSchemaId,
                          env, fuel)], 1)

(* siblingItems is dereferenced before anything is checked, and the loop   *)
(* ranges over array[len(itemsArray):], whose indices start at 0.          *)
additionalItems_validate(ai, jsonPath, jd, rootSchemaId, env, fuel) ==
    IF "items" \notin DOMAIN ai.link THEN {Panic}
    ELSE IF IsArr(ai.link["items"]) /\ IsArr(jd.value)
    THEN (IF Len(ai.link["items"].a) > Len(jd.value.a) THEN {Panic}
          ELSE SeqAll([index \in 1..(Len(jd.value.a) - Len(ai.link["items"].a)) |->
                 AsKeywordError(
                   validateJsonData(ai.js, jsonPath \o <<"/">> \o Itoa(index - 1),
                                    jd.raw, rootSchemaId, env, fuel),
                   "additionalItems")], 1))
    ELSE {OkOut}

(* An instance that is not an array falls through to the error.            *)
contains_validate(c, jsonPath, jd, rootSchemaId, env, fuel) ==
    IF IsArr(jd.value)
    THEN SeqAny([n \in DOMAIN jd.value.a |->
                   validateJsonData(c.js, jsonPath \o <<"/">> \o Itoa(n - 1), jd.raw,
                                    rootSchemaId, env, fuel)],
                1, KeywordValidationError("contains"))
    ELSE {KeywordValidationError("contains")}

(* anyOf, allOf and oneOf validate the value against each schema with the  *)
(* empty path.                                                             *)
Each(schemas, jd, rootSchemaId, env, fuel) ==
    [n \in DOMAIN schemas |->
       validateJsonData(schemas[n], <<>>, jd.raw, rootSchemaId, env, fuel)]

anyOf_validate(af, jsonPath, jd, rootSchemaId, env, fuel) ==
    SeqAny(Each(af, jd, rootSchemaId, env, fuel), 1, KeywordValidationError("anyOf"))

AllAs(outs, kw) == SeqAll([n \in DOMAIN outs |-> AsKeywordError(outs[n], kw)], 1)

allOf_validate(af, jsonPath, jd, rootSchemaId, env, fuel) ==
    AllAs(Each(af, jd, rootSchemaId, env, fuel), "allOf")

oneOf_validate(of, jsonPath, jd, rootSchemaId, env, fuel) ==
    OneOfFrom(Each(of, jd, rootSchemaId, env, fuel), 1, FALSE)

Negated(S) ==
    Crashes(S) \cup (IF CanFail(S) THEN {OkOut} ELSE {})
      \cup (IF CanPass(S) THEN {KeywordValidationError("not")} ELSE {})

(* The sub-schema is handed the path of the instance together with the     *)
(* value already taken at that path.                                       *)
not_validate(n, jsonPath, jd, rootSchemaId, env, fuel) ==
    Negated(validateJsonData(n.js, jsonPath, jd.raw, rootSchemaId, env, fuel))

(* siblingThen or siblingElse, when it is set, with the path of the        *)
(* instance and the value already taken at that path.                      *)
Branch(i, sibling, jsonPath, jd, rootSchemaId, env, fuel) ==
    IF sibling \in DOMAIN i.link
    THEN validateJsonData(i.link[sibling].js, jsonPath, jd.raw, rootSchemaId, env, fuel)
    ELSE {OkOut}

Conditional(S, onThen, onElse) ==
    Crashes(S) \cup (IF CanPass(S) THEN onThen ELSE {})
      \cup (IF CanFail(S) THEN onElse ELSE {})

if_validate(i, jsonPath, jd, rootSchemaId, env, fuel) ==
    Conditional(validateJsonData(i.js, <<>>, jd.raw, rootSchemaId, env, fuel),
                Branch(i, "then", jsonPath, jd, rootSchemaId, env, fuel),
                Branch(i, "else", jsonPath, jd, rootSchemaId, env, fuel))

KeywordOrder ==
    <<"type", "const", "enum", "minLength", "maxLength", "pattern", "format",
      "multipleOf", "minimum", "maximum", "exclusiveMinimum", "exclusiveMaximum",
      "required", "propertyNames", "properties", "additionalProperties",
      "patternProperties", "dependencies", "minProperties", "maxProperties",
      "items", "contains", "additionalItems", "minItems", "maxItems", "uniqueItems",
      "anyOf", "allOf", "oneOf", "not", "if">>

getNonNilKeywordsSlice(js) == SelectSeq(KeywordOrder, LAMBDA k : Has(js, k))

(* keyword.validate(jsonPath, jsonData, rootSchemaId) for the keyword kw   *)
(* of the schema js.                                                       *)
keyword_validate(kw, js, jsonPath, jd, rootSchemaId, env, fuel) ==
    CASE kw = "type" -> type_validate(js[kw], jd)
      [] kw = "const" -> const_validate(js[kw], jd)
      [] kw = "enum" -> enum_validate(js[kw], jd)
      [] kw = "minLength" -> minLength_validate(js[kw], jd)
      [] kw = "maxLength" -> maxLength_validate(js[kw], jd)
      [] kw = "pattern" -> pattern_validate(js[kw], jd)
      [] kw = "format" -> format_validate(js[kw], jd)
      [] kw = "multipleOf" -> multipleOf_validate(js[kw], jd)
      [] kw = "minimum" -> minimum_validate(js[kw], jd)
      [] kw = "maximum" -> maximum_validate(js[kw], jd)
      [] kw = "exclusiveMinimum" -> exclusiveMinimum_validate(js[kw], jd)
      [] kw = "exclusiveMaximum" -> exclusiveMaximum_validate(js[kw], jd)
      [] kw = "required" -> required_validate(js[kw], jd)
      [] kw = "minProperties" -> minProperties_validate(js[kw], jd)
      [] kw = "maxProperties" -> maxProperties_validate(js[kw], jd)
      [] kw = "minItems" -> minItems_validate(js[kw], jd)
      [] kw = "maxItems" -> maxItems_validate(js[kw], jd)
      [] kw = "uniqueItems" -> uniqueItems_validate(js[kw], jd)
      [] kw = "propertyNames" ->
           propertyNames_validate(js[kw], jsonPath, jd, rootSchemaId, env, fuel)
      [] kw = "properties" ->
           properties_validate(js[kw], jsonPath, jd, rootSchemaId, env, fuel)
      [] kw = "additionalProperties" ->
           additionalProperties_validate(js[kw], jsonPath, jd, rootSchemaId, env, fuel)
      [] kw = "patternProperties" ->
           patternProperties_validate(js[kw], jsonPath, jd, rootSchemaId, env, fuel)
      [] kw = "dependencies" ->
           dependencies_validate(js[kw], jsonPath, jd, rootSchemaId, env, fuel)
      [] kw = "items" -> items_validate(js[kw], jsonPath, jd, rootSchemaId, env, fuel)
      [] kw = "contains" -> contains_validate(js[kw], jsonPath, jd, rootSchemaId, env, fuel)
      [] kw = "additionalItems" ->
           additionalItems_validate(js[kw], jsonPath, jd, rootSchemaId, env, fuel)
      [] kw = "anyOf" -> anyOf_validate(js[kw], jsonPath, jd, rootSchemaId, env, fuel)
      [] kw = "allOf" -> allOf_validate(js[kw], jsonPath, jd, rootSchemaId, env, fuel)
      [] kw = "oneOf" -> oneOf_validate(js[kw], jsonPath, jd, rootSchemaId, env, fuel)
      [] kw = "not" -> not_validate(js[kw], jsonPath, jd, rootSchemaId, env, fuel)
      [] kw = "if" -> if_validate(js[kw], jsonPath, jd, rootSchemaId, env, fuel)

(* What validateJsonData makes of the error of a keyword: a                *)
(* SchemaValidationError passes, a KeywordValidationError is wrapped with  *)
(* the path of this node, any other error is returned as it is.            *)
Rewrap_Unwrapped(r, jsonPath) == r

Rewrap(r, jsonPath) ==
    IF r.k = "KeywordValidationError" THEN SchemaValidationError(jsonPath, r.kw) ELSE r

(* The loop over the keywords stops at the first error.                    *)
FirstError(S, jsonPath, rest) ==
    Crashes(S) \cup {Rewrap(r, jsonPath) : r \in Errs(S)}
      \cup (IF CanPass(S) THEN rest ELSE {})

ValidateKeywords(js, keywordValidators, i, jsonPath, jd, rootSchemaId, env, fuel) ==
    IF i > Len(keywordValidators) THEN {OkOut}
    ELSE FirstError(keyword_validate(keywordValidators[i], js, jsonPath, jd,
                                     rootSchemaId, env, fuel),
                    jsonPath,
                    ValidateKeywords(js, keywordValidators, i + 1, jsonPath, jd,
                                     rootSchemaId, env, fuel))

(* The value the pointer evaluated to goes to the keywords.                *)
ValidateValue(js, jsonPath, value, bytes, rootSchemaId, env, fuel) ==
    IF value.k = "error" THEN {GoError}
    ELSE IF value.k = "panic" THEN {Panic}
    ELSE ValidateKeywords(js, getNonNilKeywordsSlice(js), 1, jsonPath,
                          JsonData(value.v), rootSchemaId, env, fuel)

ValidateAt(js, jsonPath, jsonPointer, bytes, rootSchemaId, env, fuel) ==
    IF jsonPointer.err THEN {GoError}
    ELSE ValidateValue(js, jsonPath, Evaluate(jsonPointer.jp, bytes), bytes,
                       rootSchemaId, env, fuel)

(* A node whose "$ref" is passed over: its own keywords decide.            *)
validateJsonData_RefIgnored(js, jsonPath, bytes, rootSchemaId, env, fuel) ==
    IF fuel = 0 THEN {StackOverflow}
    ELSE IF IsNilSchema(js) THEN {Panic}
    ELSE IF Has(js, "rejectAll") THEN {SchemaValidationError(jsonPath, "")}
    ELSE ValidateAt(js, jsonPath,
                    NewJsonPointer(<<"/">> \o Last(Split(jsonPath, "/"))),
                    bytes, rootSchemaId, env, fuel - 1)

(* A nil receiver is dereferenced at js.RejectAll.  The value the keywords *)
(* see is found by evaluating the last token of jsonPath on `bytes`.       *)
validateJsonData(js, jsonPath, bytes, rootSchemaId, env, fuel) ==
    IF fuel = 0 THEN {StackOverflow}
    ELSE IF IsNilSchema(js) THEN {Panic}
    ELSE IF Has(js, "rejectAll") THEN {SchemaValidationError(jsonPath, "")}
    ELSE IF Has(js, "$ref")
    THEN validateByRef(js["$ref"], jsonPath, bytes, rootSchemaId, env, fuel - 1)
    ELSE ValidateAt(js, jsonPath,
                    NewJsonPointer(<<"/">> \o Last(Split(jsonPath, "/"))),
                    bytes, rootSchemaId, env, fuel - 1)

-----------------------------------------------------------------------------
(* The program state.  heap holds the RootJsonSchema values that are still *)
(* reachable, by address: the document it was made from, the compiled      *)
(* schema, its subSchemaMap, and whether NewRootJsonSchema returned it to  *)
(* the caller.  rootSchemaPool maps an id to an address.  result is what   *)
(* the last call returned.                                                 *)

MaxRoots == 2

MaxStack == 12

Root(doc, js, subSchemaMap, returned) ==
    [doc |-> doc, js |-> js, subSchemaMap |-> subSchemaMap, returned |-> returned]

Env(h, pool) == [heap |-> h, pool |-> pool]

Compiled(h, pool, root, err) == [heap |-> h, pool |-> pool, root |-> root, err |-> err]

(* scanSchema has run for the root at `address`, writing to the            *)
(* subSchemaMap of the root at `target`.  A root that is neither           *)
(* registered nor returned is garbage.                                     *)
AfterScan(h, pool, address, target, registered, r) ==
    IF r.err # "none" /\ ~registered
    THEN Compiled([SubSeq(h, 1, address - 1) EXCEPT ![target].subSchemaMap = r.idx],
                  pool, 0, r.err)
    ELSE Compiled([[h EXCEPT ![address].js = r.js,
                             ![address].returned = (r.err = "none")]
                     EXCEPT ![target].subSchemaMap = r.idx],
                  pool, IF r.err = "none" THEN address ELSE 0, r.err)

Scan(h, pool, address, target, registered, rootSchemaId) ==
    AfterScan(h, pool, address, target, registered,
              scanSchema(h[address].js, <<>>, rootSchemaId, h[target].subSchemaMap))

(* The id is registered only when the pool has no root under it; scanSchema *)
(* works on whichever root the pool holds under the id.                    *)
Register(doc, js, rootSchemaId, h, pool) ==
    IF rootSchemaId \in DOMAIN pool
    THEN Scan(Append(h, Root(doc, js, EmptyMap, FALSE)), pool, Len(h) + 1,
              pool[rootSchemaId], FALSE, rootSchemaId)
    ELSE Scan(Append(h, Root(doc, js, EmptyMap, FALSE)),
              (rootSchemaId :> (Len(h) + 1)) @@ pool, Len(h) + 1, Len(h) + 1, TRUE,
              rootSchemaId)

(* JSON null leaves rootSchema nil, and the assignment to its subSchemaMap *)
(* panics.                                                                 *)
Decoded(doc, rootSchema, h, pool) ==
    IF rootSchema.err THEN Compiled(h, pool, 0, "error")
    ELSE IF rootSchema.nil THEN Compiled(h, pool, 0, "panic")
    ELSE Register(doc, rootSchema.v,
                  IF Has(rootSchema.v, "$id") THEN rootSchema.v["$id"] ELSE <<>>,
                  h, pool)

(* NewRootJsonSchema(bytes) run on the heap h and the pool `pool`.         *)
NewRootJsonSchemaOn(bytes, h, pool) ==
    Decoded(Unmarshal(bytes), DecodeSchemaPtr(Unmarshal(bytes)), h, pool)

(* rs.validateBytes(bytes) for the root at address rs.                     *)
validateBytesOn(rs, bytes, h, pool) ==
    validateJsonData(h[rs].js, <<>>, bytes,
                     IF Has(h[rs].js, "$id") THEN h[rs].js["$id"] ELSE <<>>,
                     Env(h, pool), MaxStack)

Result(op, root, doc, instance, outs) ==
    [op |-> op, root |-> root, doc |-> doc, instance |-> instance, outs |-> outs]

Init ==
    /\ heap = <<>>
    /\ rootSchemaPool = EmptyMap
    /\ result = Result("none", 0, JNull, JNull, {})

Returned(c, doc) ==
    /\ heap' = c.heap
    /\ rootSchemaPool' = c.pool
    /\ result' = Result("NewRootJsonSchema", c.root, doc, JNull,
                        {IF c.err = "none" THEN OkOut
                         ELSE IF c.err = "panic" THEN Panic ELSE GoError})

NewRootJsonSchema(bytes) ==
    /\ Len(heap) < MaxRoots
    /\ Returned(NewRootJsonSchemaOn(bytes, heap, rootSchemaPool), Unmarshal(bytes))

validateBytes(rs, bytes) ==
    /\ rs \in DOMAIN heap
    /\ heap[rs].returned
    /\ result' = Result("validateBytes", rs, heap[rs].doc, Unmarshal(bytes),
                        validateBytesOn(rs, bytes, heap, rootSchemaPool))
    /\ UNCHANGED <<heap, rootSchemaPool>>

-----------------------------------------------------------------------------
(* Documents and instances.                                                *)

Obj1(k, v) == JObj(<<k>> :> v)

Obj2(k1, v1, k2, v2) == JObj((<<k1>> :> v1) @@ (<<k2>> :> v2))

Obj3(k1, v1, k2, v2, k3, v3) == JObj((<<k1>> :> v1) @@ (<<k2>> :> v2) @@ (<<k3>> :> v3))

EmptyObject == JObj(EmptyMap)

EmptyArray == JArr(<<>>)

(* "#/definitions/n" and the like, cut at the delimiters.                  *)
Fragment(tokens) == JStr(<<"#">> \o tokens)

(* The outcomes of validating `instance` with a root compiled from `doc`   *)
(* in a process that has compiled nothing else; a document that does not   *)
(* compile yields the outcome of the compilation.                          *)
ValidatedBy(c, instance) ==
    IF c.root = 0 THEN {IF c.err = "panic" THEN Panic ELSE GoError}
    ELSE validateBytesOn(c.root, Marshal(instance), c.heap, c.pool)

Alone(doc, instance) ==
    ValidatedBy(NewRootJsonSchemaOn(Marshal(doc), <<>>, EmptyMap), instance)

Accepts(outs) == outs = {OkOut}

Rejects(outs) == outs # {} /\ \A r \in outs : IsErr(r)

SameVerdict(S, T) == Accepts(S) = Accepts(T) /\ Rejects(S) = Rejects(T)

(* One instance of each JSON type, and some more.                          *)
Hello == JStr(<<"h", "e", "l", "l", "o">>)

Instances ==
    {JNull, JTrue, N(1), JNum(3), W("hi"), Hello, EmptyArray, EmptyObject,
     Obj1("v", N(1)), Obj1("v", W("s"))}

S1 == Obj2("type", W("string"), "minLength", N(3))

S6 ==
    Obj3("$id", W("R"),
         "definitions", Obj1("n", Obj1("type", W("number"))),
         "properties", Obj1("v", Obj1("$ref", Fragment(<<"/", "definitions", "/", "n">>))))

(* A second document under the id of S6, with another "/definitions/n".    *)
S6b ==
    Obj3("$id", W("R"),
         "definitions", Obj1("n", Obj1("type", W("string"))),
         "properties", Obj1("v", Obj1("$ref", Fragment(<<"/", "definitions", "/", "n">>))))

(* The documents of the main specification: the boolean schemas and the    *)
(* empty schema, two documents that share an id, a document that is no     *)
(* schema and JSON null.                                                   *)
Documents == {JTrue, JFalse, EmptyObject, S1, S6, S6b, N(5), JNull}

Next ==
    \/ \E doc \in Documents : NewRootJsonSchema(Marshal(doc))
    \/ \E rs \in 1..MaxRoots, instance \in Instances : validateBytes(rs, Marshal(instance))

Spec == Init /\ [][Next]_vars

Validated == result.op = "validateBytes"

-----------------------------------------------------------------------------
(* C1: a root compiled from {} or from true accepts every instance (null,  *)
(* boolean, number, string, array, object), and a root compiled from false *)
(* rejects every instance, null included.                                  *)
C1_BooleanSchemas ==
    Validated =>
      /\ result.doc \in {EmptyObject, JTrue} => Accepts(result.outs)
      /\ result.doc = JFalse => Rejects(result.outs)

(* The root compiled from false has rejected null while a root compiled    *)
(* from true is registered beside it.                                      *)
C1_Witness ==
    /\ Validated
    /\ result.doc = JFalse
    /\ result.instance = JNull
    /\ Rejects(result.outs)
    /\ \E rs \in DOMAIN heap : heap[rs].doc = JTrue

-----------------------------------------------------------------------------
(* Type-gating.  Each type-specific keyword alone in a document, with a    *)
(* value that an instance of the keyword's own type can fail.              *)

TypeSpecific ==
    [minLength |-> "str", maxLength |-> "str", pattern |-> "str", format |-> "str",
     multipleOf |-> "num", minimum |-> "num", maximum |-> "num",
     exclusiveMinimum |-> "num", exclusiveMaximum |-> "num",
     properties |-> "obj", additionalProperties |-> "obj", required |-> "obj",
     propertyNames |-> "obj", dependencies |-> "obj", patternProperties |-> "obj",
     minProperties |-> "obj", maxProperties |-> "obj",
     items |-> "arr", additionalItems |-> "arr", contains |-> "arr",
     minItems |-> "arr", maxItems |-> "arr", uniqueItems |-> "arr"]

TypeGateValue ==
    [minLength |-> N(5), maxLength |-> N(0), pattern |-> W("^x"),
     format |-> W("json-pointer"),
     multipleOf |-> N(2), minimum |-> N(5), maximum |-> N(0),
     exclusiveMinimum |-> N(5), exclusiveMaximum |-> N(0),
     properties |-> Obj1("a", JFalse), additionalProperties |-> JFalse,
     required |-> JArr(<<W("a")>>), propertyNames |-> JFalse,
     dependencies |-> Obj1("a", Obj1("required", JArr(<<W("b")>>))),
     patternProperties |-> Obj1("a", JFalse),
     minProperties |-> N(2), maxProperties |-> N(0),
     items |-> JFalse, additionalItems |-> JFalse, contains |-> JFalse,
     minItems |-> N(2), maxItems |-> N(0), uniqueItems |-> JTrue]

TypeGateDocuments ==
    {Obj1(k, TypeGateValue[k]) : k \in DOMAIN TypeSpecific}
      \cup {Obj2("items", JArr(<<JTrue>>), "additionalItems", JFalse)}

TypeGateInstances ==
    {JNull, JTrue, N(1), W("hi"), JArr(<<N(1), N(1)>>), Obj1("a", N(1))}

NextTypeGate ==
    \/ \E doc \in TypeGateDocuments : NewRootJsonSchema(Marshal(doc))
    \/ \E rs \in 1..MaxRoots, instance \in TypeGateInstances :
         validateBytes(rs, Marshal(instance))

SpecTypeGate == Init /\ [][NextTypeGate]_vars

(* The document holds type-specific keywords only, and none of them is of  *)
(* the JSON type of the instance.                                          *)
NotApplicable(doc, instance) ==
    /\ IsObj(doc)
    /\ \A key \in DOMAIN doc.o :
         /\ key[1] \in DOMAIN TypeSpecific
         /\ TypeSpecific[key[1]] # instance.t

(* C2: every type-specific keyword succeeds on every instance whose JSON   *)
(* type is not the keyword's own: a document of such keywords accepts it.  *)
C2_TypeGating ==
    Validated /\ NotApplicable(result.doc, result.instance) => Accepts(result.outs)

-----------------------------------------------------------------------------
(* References.  A root with the id "R" and two definitions; one node of it *)
(* is either a reference to a definition or a copy of the definition.      *)

Definitions ==
    Obj2("n", Obj1("type", W("number")),
         "t", Obj2("properties", Obj1("a", EmptyObject), "additionalProperties", JFalse))

RefTargets == DOMAIN Definitions.o

(* {"$ref": "#/definitions/<target>"}                                      *)
RefTo(target) == Obj1("$ref", Fragment(<<"/", "definitions", "/">> \o target))

(* The canonical path of a definition and the sub-schema the document has  *)
(* there.                                                                  *)
CanonicalPath(target) == <<"/", "definitions", "/">> \o target

RefPositions == {"properties", "items", "not"}

(* The root whose node at `position` is `node`.                            *)
Host(position, node) ==
    Obj3("$id", W("R"), "definitions", Definitions,
         position, IF position = "properties" THEN Obj1("v", node) ELSE node)

RefDocuments == {Host(position, RefTo(target)) : position \in RefPositions, target \in RefTargets}

RefValues == {N(1), W("s"), Obj1("a", N(1)), Obj1("b", N(1))}

RefInstances ==
    RefValues \cup {Obj1("v", v) : v \in RefValues} \cup {JArr(<<v>>) : v \in RefValues}

NextRef ==
    \/ \E doc \in RefDocuments : NewRootJsonSchema(Marshal(doc))
    \/ \E rs \in 1..MaxRoots, instance \in RefInstances :
         validateBytes(rs, Marshal(instance))

SpecRef == Init /\ [][NextRef]_vars

(* The root at address rs is the one the pool holds under its id.          *)
Registered(rs) ==
    /\ IsObj(heap[rs].doc)
    /\ <<"$id">> \in DOMAIN heap[rs].doc.o
    /\ heap[rs].doc.o[<<"$id">>].s \in DOMAIN rootSchemaPool
    /\ rootSchemaPool[heap[rs].doc.o[<<"$id">>].s] = rs

(* C3: in a registered root that has a sub-schema at the canonical path P, *)
(* a node {"$ref": "#P"} gives every instance the verdict that the root    *)
(* gives with the sub-schema at P in the place of the node.                *)
C3_RefIsInlining ==
    \A position \in RefPositions, target \in RefTargets :
       /\ Validated
       /\ Registered(result.root)
       /\ result.doc = Host(position, RefTo(target))
       /\ CanonicalPath(target) \in DOMAIN heap[result.root].subSchemaMap
       => SameVerdict(result.outs,
                      Alone(Host(position, Definitions.o[target]), result.instance))

-----------------------------------------------------------------------------
(* additionalItems.  S5 of the specification and its neighbours: "items"   *)
(* an array of schemas, one schema, or absent.                             *)

TypeIs(name) == Obj1("type", W(name))

S5 ==
    Obj2("items", JArr(<<TypeIs("string"), TypeIs("number")>>),
         "additionalItems", TypeIs("boolean"))

ArrayDocuments ==
    {S5,
     Obj2("items", JArr(<<TypeIs("string")>>), "additionalItems", JFalse),
     Obj2("items", EmptyArray, "additionalItems", TypeIs("boolean")),
     Obj2("items", TypeIs("number"), "additionalItems", JFalse),
     Obj2("items", JTrue, "additionalItems", TypeIs("boolean")),
     Obj1("additionalItems", TypeIs("boolean")),
     Obj1("additionalItems", JFalse)}

ArrayInstances ==
    {JArr(<<W("x"), N(1), JTrue, JFalse>>), JArr(<<W("x"), N(1), N(0)>>),
     JArr(<<W("x"), N(1)>>), JArr(<<W("x")>>), JArr(<<N(1), N(2)>>),
     JArr(<<JTrue>>), EmptyArray, N(5)}

NextArray ==
    \/ \E doc \in ArrayDocuments : NewRootJsonSchema(Marshal(doc))
    \/ \E rs \in 1..MaxRoots, instance \in ArrayInstances :
         validateBytes(rs, Marshal(instance))

SpecArray == Init /\ [][NextArray]_vars

HasKey(doc, k) == IsObj(doc) /\ <<k>> \in DOMAIN doc.o

Field(doc, k) == doc.o[<<k>>]

(* The document with the key k taken out.                                  *)
Without(doc, k) == JObj([key \in DOMAIN doc.o \ {<<k>>} |-> doc.o[key]])

(* "items" is an array of schemas, the instance is an array, and each of   *)
(* its elements that has a schema in "items" satisfies it.                 *)
ItemsSatisfied(doc, instance) ==
    /\ HasKey(doc, "items") /\ IsArr(Field(doc, "items"))
    /\ IsArr(instance)
    /\ Len(instance.a) >= Len(Field(doc, "items").a)
    /\ \A i \in DOMAIN Field(doc, "items").a :
         Accepts(Alone(Field(doc, "items").a[i], instance.a[i]))

(* Every element at an index >= n satisfies the additionalItems schema.    *)
RestSatisfied(doc, instance) ==
    \A i \in DOMAIN instance.a :
       i > Len(Field(doc, "items").a) =>
         Accepts(Alone(Field(doc, "additionalItems"), instance.a[i]))

(* C4: with "items" an array of n schemas and an array instance,           *)
(* additionalItems accepts iff every element at an index >= n satisfies    *)
(* its schema; the elements before are not checked against it.  S5 accepts *)
(* ["x",1,true,false] and rejects ["x",1,0].                               *)
C4_AdditionalItemsFromN ==
    /\ Validated /\ HasKey(result.doc, "additionalItems")
         /\ ItemsSatisfied(result.doc, result.instance)
       => /\ Accepts(result.outs) <=> RestSatisfied(result.doc, result.instance)
          /\ Rejects(result.outs) <=> ~RestSatisfied(result.doc, result.instance)
    /\ Validated /\ result.doc = S5
         /\ result.instance = JArr(<<W("x"), N(1), JTrue, JFalse>>)
       => Accepts(result.outs)
    /\ Validated /\ result.doc = S5 /\ result.instance = JArr(<<W("x"), N(1), N(0)>>)
       => Rejects(result.outs)

(* "items" is absent or is one schema (an object or a boolean).            *)
ItemsNoArray(doc) == ~HasKey(doc, "items") \/ ~IsArr(Field(doc, "items"))

(* C5: a node with additionalItems whose "items" is absent or one schema   *)
(* validates every instance without a crash, to the verdict of the node    *)
(* without additionalItems.                                                *)
C5_AdditionalItemsInactive ==
    Validated /\ HasKey(result.doc, "additionalItems") /\ ItemsNoArray(result.doc)
    => /\ Crashes(result.outs) = {}
       /\ SameVerdict(result.outs,
                      Alone(Without(result.doc, "additionalItems"), result.instance))

-----------------------------------------------------------------------------
(* dependencies and required on object instances.                          *)

Names(names) == JArr([i \in DOMAIN names |-> W(names[i])])

ObjectDocuments ==
    {Obj1("dependencies", Obj1("a", Names(<<"b">>))),
     Obj1("dependencies", Obj1("a", Names(<<"b", "c">>))),
     Obj1("dependencies", Obj1("a", Obj1("required", Names(<<"b">>)))),
     Obj1("dependencies", Obj1("a", Obj1("maxProperties", N(1)))),
     Obj1("dependencies", Obj2("a", Names(<<"b">>), "b", Obj1("minProperties", N(2)))),
     Obj1("dependencies", EmptyObject),
     Obj1("required", Names(<<"a">>)),
     Obj1("required", Names(<<"a", "b">>)),
     Obj1("required", Names(<<>>))}

ObjectInstances ==
    {EmptyObject, Obj1("a", N(1)), Obj1("b", N(1)), Obj1("c", N(1)),
     Obj2("a", N(1), "b", N(2)), Obj3("a", N(1), "b", N(2), "c", N(3)),
     Obj1("a", JNull), Obj2("a", JNull, "b", W("s")), N(5)}

NextObject ==
    \/ \E doc \in ObjectDocuments : NewRootJsonSchema(Marshal(doc))
    \/ \E rs \in 1..MaxRoots, instance \in ObjectInstances :
         validateBytes(rs, Marshal(instance))

SpecObject == Init /\ [][NextObject]_vars

(* What the entry of a dependency asks of an object that has its trigger.  *)
EntrySatisfied(entry, instance) ==
    IF IsArr(entry)
    THEN \A i \in DOMAIN entry.a : entry.a[i].s \in DOMAIN instance.o
    ELSE Accepts(Alone(entry, instance))

DependenciesSatisfied(deps, instance) ==
    \A trigger \in DOMAIN deps.o :
       trigger \in DOMAIN instance.o => EntrySatisfied(deps.o[trigger], instance)

(* C6: on an object, an entry of "dependencies" constrains the instance    *)
(* only when its trigger key is present: a schema entry then validates the *)
(* whole instance, an array entry then requires each listed name to be a   *)
(* key.  An entry whose trigger is absent imposes nothing.                 *)
C6_DependenciesOnTrigger ==
    Validated /\ HasKey(result.doc, "dependencies") /\ IsObj(result.instance)
    => /\ Accepts(result.outs)
            <=> DependenciesSatisfied(Field(result.doc, "dependencies"), result.instance)
       /\ Rejects(result.outs)
            <=> ~DependenciesSatisfied(Field(result.doc, "dependencies"), result.instance)

AllKeys(names, instance) == \A i \in DOMAIN names.a : names.a[i].s \in DOMAIN instance.o

(* C7: on an object, "required" accepts iff every listed name is a key of  *)
(* the instance, whatever the value under the key (null included).         *)
C7_RequiredIsKeyPresence ==
    Validated /\ HasKey(result.doc, "required") /\ IsObj(result.instance)
    => /\ Accepts(result.outs) <=> AllKeys(Field(result.doc, "required"), result.instance)
       /\ Rejects(result.outs) <=> ~AllKeys(Field(result.doc, "required"), result.instance)

-----------------------------------------------------------------------------
(* Positions.  A schema node sits at the root of the document, under       *)
(* "properties" (key "a") or under "items"; the value it describes is the  *)
(* instance, the value under "a", or the one element of an array.          *)

Positions == {"root", "properties", "items"}

At(position, node) ==
    CASE position = "root" -> node
      [] position = "properties" -> Obj1("properties", Obj1("a", node))
      [] position = "items" -> Obj1("items", node)

InstanceAt(position, value) ==
    CASE position = "root" -> value
      [] position = "properties" -> Obj1("a", value)
      [] position = "items" -> JArr(<<value>>)

Placed(docs) == {At(position, doc) : position \in Positions, doc \in docs}

PlacedValues(values) ==
    {InstanceAt(position, value) : position \in Positions, value \in values}

-----------------------------------------------------------------------------
(* not.                                                                    *)

Not(S) == Obj1("not", S)

NotSchemas == {EmptyObject, JFalse, TypeIs("string"), Obj1("minimum", N(1))}

NotDocuments == Placed({Not(S) : S \in NotSchemas} \cup {Not(Not(S)) : S \in NotSchemas})

NotValues == {W("hi"), N(1), N(0), JNull, Obj1("a", W("hi"))}

NotInstances == PlacedValues(NotValues)

NextNot ==
    \/ \E doc \in NotDocuments : NewRootJsonSchema(Marshal(doc))
    \/ \E rs \in 1..MaxRoots, instance \in NotInstances :
         validateBytes(rs, Marshal(instance))

SpecNot == Init /\ [][NextNot]_vars

(* C8: at the root and under properties/items, a node "not": S accepts a   *)
(* value iff S rejects that value, and "not": {"not": S} accepts a value   *)
(* iff S accepts it.                                                       *)
C8_NotNegates ==
    \A position \in Positions, S \in NotSchemas, value \in NotValues :
       Validated /\ result.instance = InstanceAt(position, value)
       => /\ result.doc = At(position, Not(S))
             => /\ Accepts(result.outs) <=> Rejects(Alone(S, value))
                /\ Rejects(result.outs) <=> Accepts(Alone(S, value))
          /\ result.doc = At(position, Not(Not(S)))
             => /\ Accepts(result.outs) <=> Accepts(Alone(S, value))
                /\ Rejects(result.outs) <=> Rejects(Alone(S, value))

-----------------------------------------------------------------------------
(* if, then, else.                                                         *)

IfNodes ==
    {Obj1("if", TypeIs("number")),
     Obj2("if", TypeIs("number"), "then", Obj1("minimum", N(1))),
     Obj2("if", TypeIs("number"), "else", TypeIs("string")),
     Obj3("if", TypeIs("number"), "then", Obj1("minimum", N(1)), "else", TypeIs("string")),
     Obj3("if", JTrue, "then", JFalse, "else", JTrue),
     Obj3("if", JFalse, "then", JFalse, "else", TypeIs("null"))}

IfDocuments == Placed(IfNodes)

IfValues == {N(1), N(0), W("hi"), JNull, Obj1("a", N(0))}

IfInstances == PlacedValues(IfValues)

NextIf ==
    \/ \E doc \in IfDocuments : NewRootJsonSchema(Marshal(doc))
    \/ \E rs \in 1..MaxRoots, instance \in IfInstances :
         validateBytes(rs, Marshal(instance))

SpecIf == Init /\ [][NextIf]_vars

(* The verdict of the branch k of the node on the value: accept when the   *)
(* node has no such branch.                                                *)
BranchVerdict(node, k, value) ==
    IF HasKey(node, k) THEN Alone(Field(node, k), value) ELSE {OkOut}

(* C9: at the root and under properties/items, the verdict of a node with  *)
(* "if" on a value is the verdict of "then" when "if" accepts the value    *)
(* and the verdict of "else" when it rejects it, an absent branch          *)
(* accepting.                                                              *)
C9_IfThenElse ==
    \A position \in Positions, node \in IfNodes, value \in IfValues :
       Validated /\ result.doc = At(position, node)
                 /\ result.instance = InstanceAt(position, value)
       => SameVerdict(result.outs,
                      IF Accepts(Alone(Field(node, "if"), value))
                      THEN BranchVerdict(node, "then", value)
                      ELSE BranchVerdict(node, "else", value))

-----------------------------------------------------------------------------
(* allOf and anyOf of one schema.                                          *)

AllOf(S) == Obj1("allOf", JArr(<<S>>))

AnyOf(S) == Obj1("anyOf", JArr(<<S>>))

ComposeSchemas == {TypeIs("string"), JFalse, Not(EmptyObject)}

ComposeDocuments ==
    Placed(ComposeSchemas \cup {AllOf(S) : S \in ComposeSchemas}
                          \cup {AnyOf(S) : S \in ComposeSchemas})

ComposeValues == {W("hi"), N(1), JNull}

ComposeInstances == PlacedValues(ComposeValues)

NextCompose ==
    \/ \E doc \in ComposeDocuments : NewRootJsonSchema(Marshal(doc))
    \/ \E rs \in 1..MaxRoots, instance \in ComposeInstances :
         validateBytes(rs, Marshal(instance))

SpecCompose == Init /\ [][NextCompose]_vars

(* C10: for a schema S at the root or under properties/items, and every    *)
(* instance, "allOf": [S] and "anyOf": [S] in the place of S give the      *)
(* accept/reject verdict of S.                                             *)
C10_ComposeOfOne ==
    \A position \in Positions, S \in ComposeSchemas :
       Validated /\ result.doc \in {At(position, AllOf(S)), At(position, AnyOf(S))}
       => SameVerdict(result.outs, Alone(At(position, S), result.instance))

-----------------------------------------------------------------------------
(* oneOf.                                                                  *)

OneOf(schemas) == Obj1("oneOf", JArr(schemas))

S7 == OneOf(<<TypeIs("number"), TypeIs("integer")>>)

OneOfNodes ==
    {S7,
     OneOf(<<TypeIs("integer"), Obj1("minimum", N(1))>>),
     OneOf(<<TypeIs("number"), TypeIs("integer"), Obj1("minimum", N(1))>>),
     OneOf(<<TypeIs("number")>>),
     OneOf(<<JFalse>>),
     OneOf(<<JTrue, Not(TypeIs("string"))>>),
     OneOf(<<>>)}

OneOfDocuments == Placed(OneOfNodes)

OneOfValues == {N(1), JNum(3), N(0), W("hi"), JNull}

OneOfInstances == PlacedValues(OneOfValues)

NextOneOf ==
    \/ \E doc \in OneOfDocuments : NewRootJsonSchema(Marshal(doc))
    \/ \E rs \in 1..MaxRoots, instance \in OneOfInstances :
         validateBytes(rs, Marshal(instance))

SpecOneOf == Init /\ [][NextOneOf]_vars

(* The sub-schemas of the node that accept the value.                      *)
Accepting(schemas, value) == {i \in DOMAIN schemas : Accepts(Alone(schemas[i], value))}

(* C11: oneOf accepts a value iff exactly one of its sub-schemas accepts   *)
(* it, and rejects it when none or more than one does; S7 rejects 1 and    *)
(* accepts 1.5.                                                            *)
C11_OneOfExactlyOne ==
    /\ \A position \in Positions, node \in OneOfNodes, value \in OneOfValues :
          Validated /\ result.doc = At(position, node)
                    /\ result.instance = InstanceAt(position, value)
          => /\ Accepts(result.outs)
                  <=> Cardinality(Accepting(Field(node, "oneOf").a, value)) = 1
             /\ Rejects(result.outs)
                  <=> Cardinality(Accepting(Field(node, "oneOf").a, value)) # 1
    /\ Validated /\ result.doc = S7 /\ result.instance = N(1) => Rejects(result.outs)
    /\ Validated /\ result.doc = S7 /\ result.instance = JNum(3) => Accepts(result.outs)

-----------------------------------------------------------------------------
(* additionalProperties beside properties and patternProperties.          *)

(* "patternProperties": {"^b": {}}.                                        *)
PatternB == JObj(<<"^", "b">> :> EmptyObject)

AdditionalNodes ==
    {Obj1("additionalProperties", JFalse),
     Obj1("additionalProperties", TypeIs("number")),
     Obj2("properties", Obj1("a", EmptyObject), "additionalProperties", JFalse),
     Obj2("properties", Obj1("a", EmptyObject), "additionalProperties", TypeIs("number")),
     Obj2("patternProperties", PatternB, "additionalProperties", JFalse),
     Obj3("properties", Obj1("a", EmptyObject), "patternProperties", PatternB,
          "additionalProperties", JFalse)}

AdditionalDocuments == Placed(AdditionalNodes)

AdditionalValues ==
    {EmptyObject, Obj1("a", N(1)), Obj1("b", N(1)), Obj1("c", N(1)), Obj1("c", W("s")),
     Obj2("a", W("s"), "c", N(1))}

AdditionalInstances == PlacedValues(AdditionalValues)

NextAdditional ==
    \/ \E doc \in AdditionalDocuments : NewRootJsonSchema(Marshal(doc))
    \/ \E rs \in 1..MaxRoots, instance \in AdditionalInstances :
         validateBytes(rs, Marshal(instance))

SpecAdditional == Init /\ [][NextAdditional]_vars

(* The property is named in the sibling "properties" of the node or        *)
(* matches a key of its sibling "patternProperties".                       *)
Covered(node, property) ==
    \/ HasKey(node, "properties") /\ property \in DOMAIN Field(node, "properties").o
    \/ /\ HasKey(node, "patternProperties")
       /\ \E pattern \in DOMAIN Field(node, "patternProperties").o :
             MatchString(pattern, property)

AdditionalSatisfied(node, value) ==
    \A property \in DOMAIN value.o :
       ~Covered(node, property)
         => Accepts(Alone(Field(node, "additionalProperties"), value.o[property]))

(* C12: wherever a node with additionalProperties occurs (the root, under  *)
(* properties, under items), its schema is applied to exactly the          *)
(* properties of an object that the sibling properties do not name and no  *)
(* sibling patternProperties regex matches; alone, additionalProperties    *)
(* false accepts the empty object and rejects every other object.          *)
C12_AdditionalProperties ==
    \A position \in Positions, node \in AdditionalNodes, value \in AdditionalValues :
       Validated /\ result.doc = At(position, node)
                 /\ result.instance = InstanceAt(position, value)
       => /\ Accepts(result.outs) <=> AdditionalSatisfied(node, value)
          /\ Rejects(result.outs) <=> ~AdditionalSatisfied(node, value)
          /\ node = Obj1("additionalProperties", JFalse)
             => (Accepts(result.outs) <=> value = EmptyObject)

-----------------------------------------------------------------------------
(* const and enum.                                                         *)

ConstValues == {JNull, JTrue, N(1), W("hi"), JArr(<<N(1)>>), Obj1("a", N(1))}

Const(v) == Obj1("const", v)

Enum(values) == Obj1("enum", JArr(values))

EnumNodes == {Enum(<<N(1), W("hi")>>), Enum(<<JNull, Obj1("a", N(1))>>), Enum(<<>>)}

ConstDocuments == Placed({Const(v) : v \in ConstValues} \cup EnumNodes)

ConstInstances == PlacedValues(ConstValues)

NextConst ==
    \/ \E doc \in ConstDocuments : NewRootJsonSchema(Marshal(doc))
    \/ \E rs \in 1..MaxRoots, instance \in ConstInstances :
         validateBytes(rs, Marshal(instance))

SpecConst == Init /\ [][NextConst]_vars

(* C13: {"const": v} accepts v and rejects every value that is not equal   *)
(* to v; {"enum": [v1, ..., vn]} accepts a value iff it equals one of the  *)
(* vi.  The values are decoded JSON values, so equality is equality of the *)
(* canonical texts.                                                        *)
C13_ConstEnum ==
    \A position \in Positions, value \in ConstValues :
       Validated /\ result.instance = InstanceAt(position, value)
       => /\ \A v \in ConstValues :
               result.doc = At(position, Const(v))
               => /\ Accepts(result.outs) <=> value = v
                  /\ Rejects(result.outs) <=> value # v
          /\ \A node \in EnumNodes :
               result.doc = At(position, node)
               => /\ Accepts(result.outs) <=> value \in Range(Field(node, "enum").a)
                  /\ Rejects(result.outs) <=> value \notin Range(Field(node, "enum").a)

-----------------------------------------------------------------------------
(* The registry.                                                           *)

(* The roots NewRootJsonSchema returned that carry no "$id"; addresses     *)
(* grow in the order of the calls.                                         *)
AnonymousRoots == {rs \in DOMAIN heap : heap[rs].returned /\ ~Has(heap[rs].js, "$id")}

Latest(S) == CHOOSE rs \in S : \A other \in S : other <= rs

(* C14: after successful compilations only, the entry "" of the registry   *)
(* is the most recently compiled root without "$id".                       *)
C14_AnonymousLastWins ==
    (\A rs \in DOMAIN heap : heap[rs].returned) /\ AnonymousRoots # {}
    => /\ <<>> \in DOMAIN rootSchemaPool
       /\ rootSchemaPool[<<>>] = Latest(AnonymousRoots)


(* The root at the address is in the registry.                             *)
InPool(rs) == \E id \in DOMAIN rootSchemaPool : rootSchemaPool[id] = rs

(* C15: the subSchemaMap of a root that is registered is never changed by  *)
(* a later call, be it a validation or the compilation of another          *)
(* document, one with the same "$id" included.                             *)
C15_IndexImmutable ==
    [][\A rs \in DOMAIN heap :
          InPool(rs) => /\ rs \in DOMAIN heap'
                        /\ heap'[rs].subSchemaMap = heap[rs].subSchemaMap]_vars


-----------------------------------------------------------------------------
(* The sub-schemas of a schema document and their canonical paths.         *)

RECURSIVE SubSchemaPaths(_, _)

(* The sub-schema v at `path`, and the sub-schemas in it.                  *)
Under(v, path) == {path} \cup SubSchemaPaths(v, path)

(* The canonical paths of the sub-schemas under the keyword kw, whose      *)
(* value is u, of the schema at `path`.  A dependency that is an array of  *)
(* property names is no sub-schema.                                        *)
KeywordPaths(kw, u, path) ==
    IF kw \in SchemaKw \/ (kw = "items" /\ ~IsArr(u))
    THEN Under(u, path \o <<"/", kw>>)
    ELSE IF kw \in SchemaMapKw \cup {"dependencies"}
    THEN IF IsObj(u)
         THEN UNION {Under(u.o[k], path \o <<"/", kw, "/">> \o k) :
                       k \in {d \in DOMAIN u.o : ~IsArr(u.o[d])}}
         ELSE {}
    ELSE IF IsArr(u)
    THEN UNION {Under(u.a[i], path \o <<"/", kw, "/">> \o Itoa(i - 1)) : i \in DOMAIN u.a}
    ELSE {}

SubSchemaPaths(v, path) ==
    IF IsObj(v)
    THEN UNION {KeywordPaths(kw, v.o[<<kw>>], path) :
                  kw \in {k \in SchemaKw \cup SchemaMapKw \cup SchemaListKw
                                  \cup {"items", "dependencies"} : <<k>> \in DOMAIN v.o}}
    ELSE {}

(* C16: the root that NewRootJsonSchema returns has every sub-schema of    *)
(* its document under the canonical path in its subSchemaMap, and nothing  *)
(* under the empty path.                                                   *)
C16_IndexComplete ==
    result.op = "NewRootJsonSchema" /\ result.root # 0
    => /\ SubSchemaPaths(result.doc, <<>>) \subseteq DOMAIN heap[result.root].subSchemaMap
       /\ <<>> \notin DOMAIN heap[result.root].subSchemaMap


-----------------------------------------------------------------------------
(* Compilation that fails.  A schema with a keyword of the wrong type, at  *)
(* the root and inside "properties", "items" and "dependencies", with and  *)
(* without "$id", next to documents that compile and documents that are no *)
(* schema at all.                                                          *)

Malformed == Obj1("minLength", W("x"))

MalformedNodes ==
    {Malformed,
     Obj1("properties", Obj1("a", Malformed)),
     Obj1("items", Malformed),
     Obj1("items", JArr(<<Malformed>>)),
     Obj1("items", JArr(<<Obj1("items", Malformed)>>)),
     Obj1("dependencies", Obj1("a", Malformed))}

(* The document `node` with the "$id" "R".                                 *)
WithId(node) == JObj((<<"$id">> :> W("R")) @@ node.o)

MalformedDocuments == MalformedNodes \cup {WithId(node) : node \in MalformedNodes}

SoundDocuments == {EmptyObject, WithId(EmptyObject), WithId(Obj1("items", EmptyObject))}

(* Documents that are neither an object nor a boolean.                     *)
NonSchemas == {JNull, N(5), W("s"), EmptyArray, JArr(<<EmptyObject>>)}

MalformedInstances == {N(1), JArr(<<N(1)>>), JArr(<<JArr(<<N(1)>>)>>)}

NextMalformed ==
    \/ \E doc \in MalformedDocuments \cup SoundDocuments \cup NonSchemas :
         NewRootJsonSchema(Marshal(doc))
    \/ \E rs \in 1..MaxRoots, instance \in MalformedInstances :
         validateBytes(rs, Marshal(instance))

SpecMalformed == Init /\ [][NextMalformed]_vars

(* C17: NewRootJsonSchema on a document with a malformed schema in it      *)
(* returns an error, and leaves the registry and the roots in it as they   *)
(* were.                                                                   *)
C17_FailedCompilation ==
    [][result'.op = "NewRootJsonSchema" /\ result'.doc \in MalformedDocuments
       => /\ result'.outs = {GoError}
          /\ rootSchemaPool' = rootSchemaPool
          /\ \A id \in DOMAIN rootSchemaPool :
               heap'[rootSchemaPool[id]] = heap[rootSchemaPool[id]]]_vars


(* C18: NewRootJsonSchema on a document that is neither an object nor a    *)
(* boolean returns an error: no root, and no panic.                        *)
C18_NonSchemaIsError ==
    result.op = "NewRootJsonSchema" /\ result.doc \in NonSchemas
    => result.outs = {GoError} /\ result.root = 0


-----------------------------------------------------------------------------
(* References from one root into another.  The library root "B" has a      *)
(* definition x that refers to its own definition y; the other documents   *)
(* refer to "B#/definitions/x" or to "B#/definitions/y", at the root or    *)
(* under "properties", with no id, with the id "R", and with the id "R"    *)
(* and a definition y of their own.                                        *)

Library ==
    Obj2("$id", W("B"),
         "definitions", Obj2("x", Obj1("$ref", Fragment(<<"/", "definitions", "/", "y">>)),
                             "y", TypeIs("number")))

(* {"$ref": "B#/definitions/<target>"}                                     *)
LibraryRef(target) == Obj1("$ref", JStr(<<"B", "#", "/", "definitions", "/">> \o target))

CrossPositions == {"root", "properties"}

(* The document with `node` at the position.                               *)
Holding(position, node) == IF position = "root" THEN node ELSE Obj1("properties", Obj1("v", node))

OwnDefinitions(doc) == JObj((<<"definitions">> :> Obj1("y", TypeIs("string"))) @@ doc.o)

Variants(doc) == {doc, WithId(doc), WithId(OwnDefinitions(doc))}

CrossDocuments ==
    {Library} \cup UNION {Variants(Holding(position, LibraryRef(target))) :
                            position \in CrossPositions, target \in {<<"x">>, <<"y">>}}

CrossInstances == {N(1), W("s"), Obj1("v", N(1)), Obj1("v", W("s"))}

NextCross ==
    \/ \E doc \in CrossDocuments : NewRootJsonSchema(Marshal(doc))
    \/ \E rs \in 1..MaxRoots, instance \in CrossInstances :
         validateBytes(rs, Marshal(instance))

SpecCross == Init /\ [][NextCross]_vars

(* C19: with the library registered, a node that refers to the definition  *)
(* x of the library gives every instance the verdict of the definition y   *)
(* of the library, to which x refers, in the place of the node.            *)
C19_CrossRootRef ==
    \A position \in CrossPositions :
       \A doc \in Variants(Holding(position, LibraryRef(<<"x">>))) :
          /\ Validated
          /\ result.doc = doc
          /\ <<"B">> \in DOMAIN rootSchemaPool
          => SameVerdict(result.outs,
                         Alone(Holding(position, TypeIs("number")), result.instance))


-----------------------------------------------------------------------------
(* References that do not resolve: to a fragment that the root "R" does    *)
(* not have and to a root "Z" that is never compiled, at the root of a     *)
(* document and beneath the keywords that hold sub-schemas.                *)

Dangling ==
    {Obj1("$ref", Fragment(<<"/", "definitions", "/", "missing">>)),
     Obj1("$ref", JStr(<<"Z", "#", "/", "definitions", "/", "x">>))}

DanglingPlaces ==
    {"root", "not", "anyOf", "oneOf", "allOf", "contains", "if", "additionalProperties",
     "patternProperties", "propertyNames", "dependencies"}

(* The schema with `node` beneath the keyword.                             *)
Beneath(place, node) ==
    IF place = "root" THEN node
    ELSE IF place \in SchemaListKw THEN Obj1(place, JArr(<<node>>))
    ELSE IF place = "patternProperties" THEN Obj1(place, JObj(<<"^", "b">> :> node))
    ELSE IF place = "dependencies" THEN Obj1(place, Obj1("b", node))
    ELSE Obj1(place, node)

(* The instances on which the sub-schema beneath the keyword is evaluated. *)
Evaluating(place) ==
    IF place = "contains" THEN {JArr(<<N(1)>>)}
    ELSE IF place \in {"additionalProperties", "patternProperties", "propertyNames",
                       "dependencies"}
    THEN {Obj1("b", N(1))}
    ELSE {N(1), JArr(<<N(1)>>), Obj1("b", N(1))}

DanglingDocuments == {WithId(Beneath(place, node)) : place \in DanglingPlaces, node \in Dangling}

DanglingInstances == {N(1), JArr(<<N(1)>>), Obj1("b", N(1))}

NextDangling ==
    \/ \E doc \in DanglingDocuments : NewRootJsonSchema(Marshal(doc))
    \/ \E rs \in 1..MaxRoots, instance \in DanglingInstances :
         validateBytes(rs, Marshal(instance))

SpecDangling == Init /\ [][NextDangling]_vars

(* C20: a validation that evaluates a reference that does not resolve      *)
(* returns an InvalidReferenceError, wherever the reference sits.          *)
C20_DanglingRef ==
    \A place \in DanglingPlaces, node \in Dangling :
       /\ Validated
       /\ result.doc = WithId(Beneath(place, node))
       /\ result.instance \in Evaluating(place)
       => result.outs = {InvalidReferenceError}


-----------------------------------------------------------------------------
(* Callers that run concurrently.  rootSchemaPool is a package-level map   *)
(* with no lock, and NewRootJsonSchema stores the root in it before        *)
(* scanSchema runs, so another goroutine can validate between the two.     *)
(* A compilation is two steps here: the decoding and the registration,     *)
(* and the scan with the return.  A root on the heap that has not been     *)
(* returned is the one whose compilation is under way.                     *)

IdOf(js) == IF Has(js, "$id") THEN js["$id"] ELSE <<>>

Compiling == {rs \in DOMAIN heap : ~heap[rs].returned}

(* The first step for a document that has been decoded into rootSchema.    *)
(* When the decoding fails the call returns at once.                       *)
Registering(doc, rootSchema) ==
    IF rootSchema.err \/ rootSchema.nil
    THEN Returned(Decoded(doc, rootSchema, heap, rootSchemaPool), doc)
    ELSE /\ heap' = Append(heap, Root(doc, rootSchema.v, EmptyMap, FALSE))
         /\ rootSchemaPool' = IF IdOf(rootSchema.v) \in DOMAIN rootSchemaPool
                              THEN rootSchemaPool
                              ELSE (IdOf(rootSchema.v) :> (Len(heap) + 1)) @@ rootSchemaPool
         /\ UNCHANGED result

NewRootJsonSchema_register(bytes) ==
    /\ Len(heap) < MaxRoots
    /\ Compiling = {}
    /\ Registering(Unmarshal(bytes), DecodeSchemaPtr(Unmarshal(bytes)))

(* The second step: scanSchema on the root, and the return.                *)
NewRootJsonSchema_scanSchema(rs) ==
    /\ rs \in Compiling
    /\ Returned(Scan(heap, rootSchemaPool, rs, rootSchemaPool[IdOf(heap[rs].js)],
                     rootSchemaPool[IdOf(heap[rs].js)] = rs, IdOf(heap[rs].js)),
                heap[rs].doc)

(* Two roots to refer to, "U" with a definition and "W" with "properties"  *)
(* beside "additionalProperties", and two roots that refer to them.        *)
RootU == Obj2("$id", W("U"), "definitions", Obj1("n", TypeIs("number")))

RootW ==
    Obj3("$id", W("W"), "properties", Obj1("a", EmptyObject), "additionalProperties", JFalse)

ToDefinition == Obj1("$ref", JStr(<<"U", "#", "/", "definitions", "/", "n">>))

ToRoot == Obj1("$ref", JStr(<<"W", "#">>))

ConcurrentDocuments == {RootU, RootW, ToDefinition, ToRoot}

ConcurrentInstances == {N(1), W("s"), Obj1("a", N(1)), Obj1("b", N(1))}

NextConcurrent ==
    \/ \E doc \in ConcurrentDocuments : NewRootJsonSchema_register(Marshal(doc))
    \/ \E rs \in 1..MaxRoots : NewRootJsonSchema_scanSchema(rs)
    \/ \E rs \in 1..MaxRoots, instance \in ConcurrentInstances :
         validateBytes(rs, Marshal(instance))

SpecConcurrent == Init /\ [][NextConcurrent]_vars

(* C21: a validation through a reference into a root that is in the        *)
(* registry gives the verdict of the node referred to, as that root gives  *)
(* it once compiled.                                                       *)
C21_AtomicRegistration ==
    /\ Validated /\ result.doc = ToDefinition /\ <<"U">> \in DOMAIN rootSchemaPool
       => SameVerdict(result.outs, Alone(TypeIs("number"), result.instance))
    /\ Validated /\ result.doc = ToRoot /\ <<"W">> \in DOMAIN rootSchemaPool
       => SameVerdict(result.outs, Alone(RootW, result.instance))


-----------------------------------------------------------------------------
(* References that form a cycle.  A root that refers to itself, with and   *)
(* without an id, two definitions that refer to each other, and a schema   *)
(* of linked records whose "next" is the root again; S6 has a reference    *)
(* and no cycle.  A recursion that does not end uses up the stack: the     *)
(* call does not return.                                                   *)

SelfRef == Obj2("$id", W("R"), "$ref", JStr(<<"#">>))

AnonymousSelfRef == Obj1("$ref", JStr(<<"#">>))

MutualRef ==
    Obj3("$id", W("M"),
         "definitions", Obj2("a", Obj1("$ref", Fragment(<<"/", "definitions", "/", "b">>)),
                             "b", Obj1("$ref", Fragment(<<"/", "definitions", "/", "a">>))),
         "properties", Obj1("v", Obj1("$ref", Fragment(<<"/", "definitions", "/", "a">>))))

LinkedRecords ==
    Obj3("$id", W("T"), "type", W("object"),
         "properties", Obj1("next", Obj1("$ref", JStr(<<"#">>))))

CycleDocuments == {SelfRef, AnonymousSelfRef, MutualRef, LinkedRecords, S6}

CycleInstances ==
    {N(1), Obj1("v", N(1)), EmptyObject, Obj1("next", EmptyObject),
     Obj1("next", Obj1("next", EmptyObject))}

NextCycle ==
    \/ \E doc \in CycleDocuments : NewRootJsonSchema(Marshal(doc))
    \/ \E rs \in 1..MaxRoots, instance \in CycleInstances :
         validateBytes(rs, Marshal(instance))

SpecCycle == Init /\ [][NextCycle]_vars

(* C22: every validation call on a compiled root returns: none recurses    *)
(* without end.                                                            *)
C22_Terminates == Validated => StackOverflow \notin result.outs


-----------------------------------------------------------------------------
(* The errors that leave validateJsonData.                                 *)

(* C23: no validation call returns a KeywordValidationError: the failure   *)
(* of a keyword leaves the node as a SchemaValidationError.                *)
C23_KeywordErrorWrapped ==
    Validated => \A r \in result.outs : r.k # "KeywordValidationError"

(* "hi" is shorter than the minLength of S1: the failure of the keyword    *)
(* leaves the root as a SchemaValidationError with the path of the root.   *)
C23_Witness ==
    /\ Validated
    /\ result.doc = S1
    /\ result.instance = W("hi")
    /\ result.outs = {SchemaValidationError(<<>>, "minLength")}


-----------------------------------------------------------------------------
(* The path of a failure in a child schema.  The child is {"type":         *)
(* "number"} and the value that fails it is the string "s", one or two     *)
(* levels down, beneath "properties", "patternProperties",                 *)
(* "additionalProperties" and "items".                                     *)

PathCase(doc, instance, path) == [doc |-> doc, instance |-> instance, path |-> path]

PathCases ==
    {PathCase(Obj1("properties", Obj1("a", TypeIs("number"))),
              Obj1("a", W("s")), <<"/", "a">>),
     PathCase(Obj1("properties", Obj1("a", Obj1("properties", Obj1("b", TypeIs("number"))))),
              Obj1("a", Obj1("b", W("s"))), <<"/", "a", "/", "b">>),
     PathCase(Obj1("patternProperties", JObj(<<"^", "a">> :> TypeIs("number"))),
              Obj1("a", W("s")), <<"/", "a">>),
     PathCase(Obj1("additionalProperties", TypeIs("number")),
              Obj1("a", W("s")), <<"/", "a">>),
     PathCase(Obj1("items", TypeIs("number")),
              JArr(<<W("s")>>), <<"/", "0">>),
     PathCase(Obj1("items", JArr(<<TypeIs("number")>>)),
              JArr(<<W("s")>>), <<"/", "0">>),
     PathCase(Obj1("properties", Obj1("a", Obj1("items", TypeIs("number")))),
              Obj1("a", JArr(<<W("s")>>)), <<"/", "a", "/", "0">>)}

PathDocuments == {c.doc : c \in PathCases}

PathInstances == {c.instance : c \in PathCases} \cup {Obj1("a", N(1)), JArr(<<N(1)>>)}

NextPath ==
    \/ \E doc \in PathDocuments : NewRootJsonSchema(Marshal(doc))
    \/ \E rs \in 1..MaxRoots, instance \in PathInstances :
         validateBytes(rs, Marshal(instance))

SpecPath == Init /\ [][NextPath]_vars

(* C24: when a nested value fails its child schema, the call returns a     *)
(* SchemaValidationError with the path of that value.                      *)
C24_DeepestPath ==
    \A c \in PathCases :
       Validated /\ result.doc = c.doc /\ result.instance = c.instance
       => /\ result.outs # {}
          /\ \A r \in result.outs : r.k = "SchemaValidationError" /\ r.path = c.path


-----------------------------------------------------------------------------
(* "$ref" beside other keywords.  The root "R" has the definition n, a     *)
(* number; the node refers to it and has one more keyword, or none, and    *)
(* sits at the root, under "properties" or under "items".                  *)

Siblings ==
    {EmptyMap,
     <<"type">> :> W("string"),
     <<"not">> :> EmptyObject,
     <<"required">> :> JArr(<<W("z")>>),
     <<"minimum">> :> N(5)}

RefNode(sibling) ==
    JObj((<<"$ref">> :> Fragment(<<"/", "definitions", "/", "n">>)) @@ sibling)

RejectNode(sibling) == JObj((<<"rejectAll">> :> JTrue) @@ RefNode(sibling).o)

(* The root "R" with the definition n and the node at the position.        *)
Rooted(position, node) ==
    JObj((<<"$id">> :> W("R")) @@ (<<"definitions">> :> Obj1("n", TypeIs("number")))
           @@ At(position, node).o)

PrecedenceDocuments ==
    {Rooted(position, RefNode(sibling)) : position \in Positions, sibling \in Siblings}
      \cup {Rooted(position, RejectNode(EmptyMap)) : position \in Positions}

PrecedenceValues == {N(1), N(7), W("s"), EmptyObject}

PrecedenceInstances == PlacedValues(PrecedenceValues)

NextPrecedence ==
    \/ \E doc \in PrecedenceDocuments : NewRootJsonSchema(Marshal(doc))
    \/ \E rs \in 1..MaxRoots, instance \in PrecedenceInstances :
         validateBytes(rs, Marshal(instance))

SpecPrecedence == Init /\ [][NextPrecedence]_vars

(* C25: a node with "$ref" gives every instance the verdict of the node    *)
(* referred to, whatever other keyword it has; with rejectAll set it       *)
(* rejects.                                                                *)
C25_RefPrecedence ==
    \A position \in Positions, value \in PrecedenceValues :
       Validated /\ result.instance = InstanceAt(position, value)
       => /\ \A sibling \in Siblings :
               result.doc = Rooted(position, RefNode(sibling))
               => SameVerdict(result.outs,
                              Alone(At(position, TypeIs("number")), result.instance))
          /\ result.doc = Rooted(position, RejectNode(EmptyMap)) => Rejects(result.outs)

(* The sibling {"type": "string"} would reject 1; the definition accepts.  *)
C25_Witness ==
    /\ Validated
    /\ result.doc = Rooted("root", RefNode(<<"type">> :> W("string")))
    /\ result.instance = N(1)
    /\ Accepts(result.outs)


-----------------------------------------------------------------------------
(* The formats "json-pointer" and "relative-json-pointer".  The checkers   *)
(* are pure functions of the string; they are applied, through the keyword *)
(* "format" of a compiled root, to every string of up to MaxLen characters *)
(* over an alphabet that has the characters the checker tells apart.       *)

MaxLen == 3

Strings(alphabet) == UNION {[1..n -> alphabet] : n \in 0..MaxLen}

PointerAlphabet == {"/", "~", "0", "1", "a"}

RelPointerAlphabet == {"/", "~", "0", "1", "#", "-"}

Format(name) == Obj1("format", W(name))

(* The state in which NewRootJsonSchema has returned the root of doc.      *)
Started(c, doc) ==
    /\ heap = c.heap
    /\ rootSchemaPool = c.pool
    /\ result = Result("NewRootJsonSchema", c.root, doc, JNull, {OkOut})

InitFormat(name) ==
    Started(NewRootJsonSchemaOn(Marshal(Format(name)), <<>>, EmptyMap), Format(name))

InitPointer == InitFormat("json-pointer")

NextPointer == \E s \in Strings(PointerAlphabet) : validateBytes(1, Marshal(JStr(s)))

SpecPointer == InitPointer /\ [][NextPointer]_vars

InitRelPointer == InitFormat("relative-json-pointer")

NextRelPointer == \E s \in Strings(RelPointerAlphabet) : validateBytes(1, Marshal(JStr(s)))

SpecRelPointer == InitRelPointer /\ [][NextRelPointer]_vars

(* Empty, or "/" first and every "~" followed by "0" or "1".               *)
ValidPointer(s) ==
    \/ s = <<>>
    \/ /\ s[1] = "/"
       /\ \A i \in DOMAIN s : s[i] = "~" => i < Len(s) /\ s[i + 1] \in {"0", "1"}

(* Decimal digits, then nothing, "#", or a json-pointer.                   *)
ValidRelPointer(s) ==
    \E n \in 1..Len(s) :
       /\ IsDigits(SubSeq(s, 1, n))
       /\ \/ SubSeq(s, n + 1, Len(s)) \in {<<>>, <<"#">>}
          \/ ValidPointer(SubSeq(s, n + 1, Len(s)))

(* C26: the format "relative-json-pointer" accepts a string iff it is a    *)
(* non-negative decimal integer followed by nothing, by "#" or by a        *)
(* json-pointer.                                                           *)
C26_RelativeJsonPointer ==
    Validated /\ result.doc = Format("relative-json-pointer")
    => /\ Accepts(result.outs) <=> ValidRelPointer(result.instance.s)
       /\ Rejects(result.outs) <=> ~ValidRelPointer(result.instance.s)

(* C27: the format "json-pointer" accepts a string iff it is empty, or     *)
(* begins with "/" and has every "~" followed by "0" or "1".               *)
C27_JsonPointer ==
    Validated /\ result.doc = Format("json-pointer")
    => /\ Accepts(result.outs) <=> ValidPointer(result.instance.s)
       /\ Rejects(result.outs) <=> ~ValidPointer(result.instance.s)

(* "/~" ends with "~" and is rejected.                                     *)
C27_Witness ==
    /\ Validated
    /\ result.doc = Format("json-pointer")
    /\ result.instance = JStr(<<"/", "~">>)
    /\ Rejects(result.outs)


-----------------------------------------------------------------------------
(* The JSON-Pointer evaluator, called on its own: NewJsonPointer(path) and *)
(* then Evaluate(bytes).  The result holds the document, the path as a     *)
(* string, and how the call ended.                                         *)

EvaluatedAs(path, bytes, value) ==
    /\ result' = Result("Evaluate", 0, Unmarshal(bytes), JStr(path),
                        {IF value.k = "ok" THEN OkOut
                         ELSE IF value.k = "panic" THEN Panic ELSE GoError})
    /\ UNCHANGED <<heap, rootSchemaPool>>

EvaluatePointer(path, bytes) ==
    /\ ~NewJsonPointer(path).err
    /\ EvaluatedAs(path, bytes, Evaluate(NewJsonPointer(path).jp, bytes))

WalkTokens == {<<"0">>, <<"1">>, <<"-", "1">>, <<"a">>}

WalkPaths ==
    {<<>>} \cup {<<"/">> \o t : t \in WalkTokens}
      \cup {<<"/">> \o t \o <<"/">> \o u : t \in WalkTokens, u \in WalkTokens}

WalkDocuments ==
    {N(5), EmptyArray, JArr(<<N(1)>>), JArr(<<JArr(<<N(1), N(2)>>)>>),
     Obj1("a", JArr(<<N(1), N(2)>>)), Obj2("0", N(1), "-1", EmptyObject)}

NextWalk == \E path \in WalkPaths, doc \in WalkDocuments : EvaluatePointer(path, Marshal(doc))

SpecWalk == Init /\ [][NextWalk]_vars

RECURSIVE Resolves(_, _)

(* Every token finds a value: a key of an object, or decimal digits that   *)
(* are an index of an array.                                               *)
Resolves(tokens, v) ==
    IF tokens = <<>> THEN TRUE
    ELSE IF IsObj(v)
    THEN Head(tokens) \in DOMAIN v.o /\ Resolves(Tail(tokens), v.o[Head(tokens)])
    ELSE IF IsArr(v)
    THEN /\ IsDigits(Head(tokens))
         /\ DigitsValue(Head(tokens)) < Len(v.a)
         /\ Resolves(Tail(tokens), v.a[DigitsValue(Head(tokens)) + 1])
    ELSE FALSE

(* C28: Evaluate returns the value when every token resolves and an error  *)
(* otherwise; it never panics.                                             *)
C28_EvaluateReportsErrors ==
    result.op = "Evaluate"
    => result.outs = {IF Resolves(NewJsonPointer(result.instance.s).jp, result.doc)
                      THEN OkOut ELSE GoError}


-----------------------------------------------------------------------------
(* The "$ref" string and the "#" in it.  The root "R" accepts numbers and  *)
(* has the definition n; the other documents refer to "R" and to a root    *)
(* "Z" that is never compiled, with no "#", with one and with two.         *)

SplitTarget ==
    Obj3("$id", W("R"), "type", W("number"), "definitions", Obj1("n", TypeIs("string")))

SplitRefs ==
    {<<"R">>, <<"R", "#">>, <<"Z">>, <<"Z", "#">>,
     <<"R", "#", "/", "definitions", "/", "n">>,
     <<"R", "#", "/", "definitions", "/", "n", "#", "x">>}

SplitDocuments == {SplitTarget} \cup {Obj1("$ref", JStr(r)) : r \in SplitRefs}

SplitInstances == {N(1), W("s")}

NextSplit ==
    \/ \E doc \in SplitDocuments : NewRootJsonSchema(Marshal(doc))
    \/ \E rs \in 1..MaxRoots, instance \in SplitInstances :
         validateBytes(rs, Marshal(instance))

SpecSplit == Init /\ [][NextSplit]_vars

(* The text before the first "#", and the text after it.                   *)
UriOf(r) ==
    IF Cuts(r, "#") = {} THEN r
    ELSE SubSeq(r, 1, (CHOOSE c \in Cuts(r, "#") : \A d \in Cuts(r, "#") : c <= d) - 1)

FragmentOf(r) == SubSeq(r, Len(UriOf(r)) + 2, Len(r))

(* What the resolution of r comes to when the registry holds SplitTarget   *)
(* under "R" or nothing at all.                                            *)
Resolution(r, instance) ==
    IF UriOf(r) \notin DOMAIN rootSchemaPool THEN {InvalidReferenceError}
    ELSE IF FragmentOf(r) = <<>> THEN Alone(SplitTarget, instance)
    ELSE IF FragmentOf(r) = <<"/", "definitions", "/", "n">>
    THEN Alone(TypeIs("string"), instance)
    ELSE {InvalidReferenceError}

(* C29: a "$ref" is cut at its first "#", and without a "#" the fragment   *)
(* is empty: the call gives the verdict of the root, or of the sub-schema  *)
(* at the fragment, or an InvalidReferenceError; it does not panic.        *)
C29_RefSplitting ==
    \A r \in SplitRefs :
       Validated /\ result.doc = Obj1("$ref", JStr(r))
       => /\ Panic \notin result.outs
          /\ SameVerdict(result.outs, Resolution(r, result.instance))
          /\ Resolution(r, result.instance) = {InvalidReferenceError}
             => result.outs = {InvalidReferenceError}


-----------------------------------------------------------------------------
(* uniqueItems, true and false, at the root, under "properties" and under  *)
(* "items", on arrays with and without two equal elements.                 *)

UniqueItems(b) == Obj1("uniqueItems", JBool(b))

UniqueDocuments == Placed({UniqueItems(TRUE), UniqueItems(FALSE)})

UniqueValues ==
    {W("s"), EmptyArray, JArr(<<N(1)>>), JArr(<<N(1), N(1)>>), JArr(<<N(1), N(2)>>),
     JArr(<<Obj1("a", N(1)), Obj1("a", N(1))>>), JArr(<<N(1), W("s"), N(1)>>)}

UniqueInstances == PlacedValues(UniqueValues)

NextUnique ==
    \/ \E doc \in UniqueDocuments : NewRootJsonSchema(Marshal(doc))
    \/ \E rs \in 1..MaxRoots, instance \in UniqueInstances :
         validateBytes(rs, Marshal(instance))

SpecUnique == Init /\ [][NextUnique]_vars

(* Two elements of the array are the same JSON value.                      *)
HasEqualElements(value) ==
    IsArr(value) /\ \E i, j \in DOMAIN value.a : i # j /\ value.a[i] = value.a[j]

(* C30: uniqueItems rejects iff it is true and the array has two equal     *)
(* elements; uniqueItems false accepts every array.                        *)
C30_UniqueItems ==
    \A position \in Positions, value \in UniqueValues, b \in BOOLEAN :
       /\ Validated
       /\ result.doc = At(position, UniqueItems(b))
       /\ result.instance = InstanceAt(position, value)
       => /\ Rejects(result.outs) <=> b /\ HasEqualElements(value)
          /\ Accepts(result.outs) <=> ~(b /\ HasEqualElements(value))

=============================================================================
